---- MODULE Spec2Model ----
(***************************************************************************)
(* Model of the logging library: the bounded AsyncQueue                    *)
(* (include/logging/Logger.h) driven by several producers, one consumer    *)
(* and a thread that calls shutdown(); Logger over a FileOutput            *)
(* (src/Logger.cpp): log, setDefaultLevel, setConfig, getLastError,        *)
(* enableAsync and the destructor; and SocketOutput::writeLog.             *)
(***************************************************************************)
EXTENDS Integers, Sequences, FiniteSets, TLC

(***************************************************************************)
(* Bounds of the model.                                                    *)
(***************************************************************************)
NumProducers == 2     \* producer threads calling AsyncQueue::push
MaxOps == 6           \* calls of push, pop and shutdown made on one queue
MaxQueueSize == 2     \* largest max_size_ given to the constructor
NumThreads == 2       \* threads calling one Logger
MaxCalls == 2         \* calls the threads make on the Logger, in all
MessagesPerThread == 2  \* messages of each thread of the multithreading test
MaxWrites == 3        \* writeLog calls made on one SocketOutput
MaxMsgLen == 2        \* longest message handed to send(), in bytes
MaxLifetimes == 3     \* Loggers created one after another on one file
MaxReconnectAttempts == 2  \* max_reconnect_attempts_ of the socket output
MaxSizeMB == 2        \* largest max_size_mb of a rotating file output
MaxFiles == 3         \* largest max_files of a rotating file output
MaxRotWrites == 4     \* writeLog calls on the rotating file output
MaxMessages == 3      \* lines the collector adds to its statistics
MaxInterval == 2      \* largest N (messagesInterval) of the collector
MaxTimeout == 2       \* largest T (timeoutSeconds) of the collector
MaxSeconds == 2       \* seconds the clock advances one at a time
MaxHours == 1         \* hours the clock advances one at a time
MaxStream == 4        \* bytes a client sends on one connection
MaxLine == 4          \* characters of a message text or of an unformatted line
MaxInputs == 2        \* messages typed into the interactive front end

VARIABLES
    \* ---- AsyncQueue<T> ----
    queue_,       \* std::queue<T> queue_, head first
    shutdown_,    \* std::atomic<bool> shutdown_
    max_size_,    \* size_t max_size_
    q_mutex_,     \* owner of AsyncQueue::mutex_
    p_pc,         \* position of each producer inside push
    p_item,       \* argument of the push call in progress
    c_pc,         \* position of the consumer inside pop
    c_item,       \* the consumer's out-parameter `item`
    s_pc,         \* position of the thread calling shutdown()
    hist,         \* completed queue operations, in the order they took effect
    \* ---- Logger over a FileOutput ----
    defaultLevel_,  \* LogLevel Logger::defaultLevel_
    l_mutex_,     \* owner of Logger::mutex_
    file_open,    \* FileOutput::file_.is_open()
    file_good,    \* FileOutput::file_.good()
    file_,        \* what file_ has written, in order
    t_pc,         \* position of each thread inside the Logger
    t_calls,      \* calls each thread has made
    t_arg,        \* argument of the setDefaultLevel call in progress
    cur,          \* each thread's log call: its arguments and what it did
    config_,      \* LoggerConfig Logger::config_
    lastset,      \* the latest completed setDefaultLevel or setConfig call
    last_error_,  \* LoggingError Logger::last_error_
    async_running_,  \* std::atomic<bool> Logger::async_running_
    workers,      \* threads running asyncWorkerLoop
    output_,      \* whether Logger::output_ still owns its backend
    \* ---- SocketOutput ----
    socket_fd_,   \* int SocketOutput::socket_fd_
    connected_,   \* bool SocketOutput::connected_
    w_hist,       \* the writeLog calls made: length, result of send, return
    \* ---- Logger lifetimes on one file ----
    lives,        \* the Loggers destroyed so far: message logged and result
    \* ---- EnhancedSocketOutput ----
    e_connected_,   \* std::atomic<bool> EnhancedSocketOutput::connected_
    reconnecting_,  \* std::atomic<bool> reconnecting_
    reconnect_mutex_,  \* owner of reconnect_mutex_
    remaining,    \* attempts the running reconnect loop has left
    attempts,     \* connection attempts made by the latest reconnect loop
    loops,        \* threads running reconnectLoop
    always_fails, \* whether every connection to the target fails
    e_pc,         \* position of each writer inside writeLog
    e_calls,      \* writeLog calls made so far
    \* ---- EnhancedFileOutput and its LogRotator ----
    max_size_mb,    \* LogRotator's max_size_mb argument
    max_files_,     \* LogRotator::max_files_
    current_size_,  \* EnhancedFileOutput::current_size_
    numbered,       \* base.k for each k: the generation it holds, 0 if absent
    active,         \* generation of the active file base
    rotate_calls,   \* calls of LogRotator::rotate so far
    o_calls,        \* writeLog calls made so far
    \* ---- logLevelToString / stringToLogLevel ----
    enumerators,  \* values of the LogLevel enumerators Logger.h leaves out
    n_level,      \* the level given to logLevelToString
    n_word,       \* the name the string argument spells, cases aside
    n_name,       \* the string argument of stringToLogLevel
    n_result,     \* <<level>> once stringToLogLevel has returned
    n_pc,         \* position of the conversion
    \* ---- log_stats: LogStatistics and its two threads ----
    messagesInterval,  \* N
    timeoutSeconds,    \* T
    totalMessages,
    messagesByLevel,   \* std::map from level to count
    messagesLastHour,
    minLength,
    maxLength,
    avgLength,         \* <<totalLength, totalMessages>>, the quotient's terms
    totalLength,
    timestamps,
    lastStatsOutput,
    statsChanged,
    now,               \* system_clock::now(), in seconds
    reported,          \* totalMessages as the latest report printed it
    lengths,           \* the lengths of the messages added so far, as a set
    inputs,            \* <<length, level>> of the lines a client may send
    k_pc,              \* position of the receive loop
    tc_pc,             \* position of timeoutChecker
    tc_sleep,          \* when timeoutChecker went to sleep
    \* ---- log_stats: the receive loop of one connection ----
    stream,          \* the bytes the client sends
    received,        \* how many of them recv has returned
    partialMessage,
    handed,          \* the lines given to parseLogMessage so far
    \* ---- log_stats: parseLogMessage ----
    rawMessage,      \* the line to parse
    p_fields,        \* <<ts, level, text>> the line was formatted from, or <<>>
    p_out,           \* <<>>, or <<returned, message, level>> after the call
    \* ---- the interactive front end: ThreadSafeQueue, loggerWorker, main ----
    tq_queue_,       \* ThreadSafeQueue::queue_
    tq_mutex_,       \* owner of ThreadSafeQueue::mutex_
    tq_shutdown_,    \* ThreadSafeQueue::shutdown_
    m_pc,            \* position of main
    w_pc,            \* position of loggerWorker
    w_message,       \* loggerWorker's message
    pushed,          \* the messages main has pushed, in order
    passed           \* the messages loggerWorker has given to Logger::log

qvars == <<queue_, shutdown_, max_size_, q_mutex_, p_pc, p_item, c_pc, c_item,
           s_pc, hist>>

lvars == <<defaultLevel_, l_mutex_, file_open, file_good, file_, t_pc, t_calls,
           t_arg, cur>>

cvars == <<config_, lastset>>

evars == <<last_error_>>

avars == <<async_running_, workers, output_>>

svars == <<socket_fd_, connected_, w_hist>>

fvars == <<lives>>

ovars == <<max_size_mb, max_files_, current_size_, numbered, active,
           rotate_calls, o_calls>>

nvars == <<enumerators, n_level, n_word, n_name, n_result, n_pc>>

kvars == <<messagesInterval, timeoutSeconds, totalMessages, messagesByLevel,
           messagesLastHour, minLength, maxLength, avgLength, totalLength,
           timestamps, lastStatsOutput, statsChanged, now, reported, lengths,
           inputs, k_pc, tc_pc, tc_sleep>>

bvars == <<stream, received, partialMessage, handed>>

pvars == <<rawMessage, p_fields, p_out>>

tvars == <<tq_queue_, tq_mutex_, tq_shutdown_, m_pc, w_pc, w_message, pushed,
           passed>>

rvars == <<e_connected_, reconnecting_, reconnect_mutex_, remaining, attempts,
           loops, always_fails, e_pc, e_calls>>

\* the variables of the queue, the Logger and the SocketOutput
base == <<qvars, lvars, cvars, evars, avars, svars>>

\* what the actions of each later component leave alone
zvars == <<rvars, ovars, nvars, kvars, bvars, pvars, tvars>>

NotReconnect == <<base, fvars, ovars, nvars, kvars, bvars, pvars, tvars>>

NotRotation == <<base, fvars, rvars, nvars, kvars, bvars, pvars, tvars>>

NotNames == <<base, fvars, rvars, ovars, kvars, bvars, pvars, tvars>>

NotCollector == <<base, fvars, rvars, ovars, nvars, bvars, pvars, tvars>>

NotReceive == <<base, fvars, rvars, ovars, nvars, kvars, pvars, tvars>>

NotParser == <<base, fvars, rvars, ovars, nvars, kvars, bvars, tvars>>

NotFrontEnd == <<base, fvars, rvars, ovars, nvars, kvars, bvars, pvars>>

yvars == <<fvars, rvars, ovars, nvars, kvars, bvars, pvars, tvars>>

xvars == <<cvars, evars, avars, svars, yvars>>

vars == <<queue_, shutdown_, max_size_, q_mutex_, p_pc, p_item, c_pc, c_item,
          s_pc, hist, defaultLevel_, l_mutex_, file_open, file_good, file_,
          t_pc, t_calls, t_arg, cur, config_, lastset, last_error_,
          async_running_, workers, output_, socket_fd_, connected_, w_hist,
          lives, e_connected_, reconnecting_, reconnect_mutex_, remaining,
          attempts, loops, always_fails, e_pc, e_calls, max_size_mb,
          max_files_, current_size_, numbered, active, rotate_calls, o_calls,
          enumerators, n_level, n_word, n_name, n_result, n_pc,
          messagesInterval, timeoutSeconds, totalMessages, messagesByLevel,
          messagesLastHour, minLength, maxLength, avgLength, totalLength,
          timestamps, lastStatsOutput, statsChanged, now, reported, lengths,
          inputs, k_pc, tc_pc, tc_sleep, stream, received, partialMessage,
          handed, rawMessage, p_fields, p_out, tq_queue_, tq_mutex_,
          tq_shutdown_, m_pc, w_pc, w_message, pushed, passed>>

Producers == 1..NumProducers

NoOwner == <<"none", 0>>
ProducerId(p) == <<"producer", p>>
ConsumerId == <<"consumer", 0>>

NoItem == [by |-> 0, n |-> 0]

(***************************************************************************)
(* Helpers over the history.                                               *)
(***************************************************************************)
IsPushBy(p, e) == e.op = "push" /\ e.item.by = p
IsAccepted(e) == e.op = "push" /\ e.ok
IsPop(e) == e.op = "pop"
IsPopOk(e) == e.op = "pop" /\ e.ok
IsShutdown(e) == e.op = "shutdown"

PushesBy(p) == Cardinality({i \in 1..Len(hist) : IsPushBy(p, hist[i])})

\* calls made so far: the completed ones and those in progress
CallsMade ==
    Len(hist) + Cardinality({p \in Producers : p_pc[p] # "idle"})
              + (IF c_pc # "idle" THEN 1 ELSE 0)

Items(s) == [i \in 1..Len(s) |-> s[i].item]
AcceptedItems == Items(SelectSeq(hist, IsAccepted))
PoppedItems == Items(SelectSeq(hist, IsPopOk))

(***************************************************************************)
(* The pieces of AsyncQueue's code that decide its behaviour.              *)
(***************************************************************************)
\* push: `queue_.size() >= max_size_`
PushFullOffByOne(q, m) == Len(q) > m
PushFull(q, m) == Len(q) >= m

\* push: `queue_.push(item)`
EnqueueAtFront(q, x) == <<x>> \o q
Enqueue(q, x) == Append(q, x)

\* pop: the wait predicate `!queue_.empty() || shutdown_.load()`
PopPredicate(q, s) == q # <<>> \/ s

\* pop: `shutdown_.load() && queue_.empty()`
PopShutdownOnly(q, s) == s
PopShutdownEmpty(q, s) == s /\ q = <<>>

\* pop: `queue_.front()` and `queue_.pop()`
QFront(q) == Head(q)
QPop(q) == Tail(q)

\* shutdown: the value stored into shutdown_
ShutdownStored == TRUE

\* condition_variable: a notification reaches a thread only if it is blocked
\* inside wait() at that moment
Notify(c) == IF c = "pop_wait" THEN "pop_woken" ELSE c

(***************************************************************************)
(* AsyncQueue(max_size)                                                    *)
(***************************************************************************)
QInit ==
    /\ queue_ = <<>>
    /\ shutdown_ = FALSE
    /\ max_size_ \in 0..MaxQueueSize
    /\ q_mutex_ = NoOwner
    /\ p_pc = [p \in Producers |-> "idle"]
    /\ p_item = [p \in Producers |-> NoItem]
    /\ c_pc = "idle"
    /\ c_item = NoItem
    /\ s_pc = "idle"
    /\ hist = <<>>

(***************************************************************************)
(* bool push(const T& item)                                                *)
(***************************************************************************)
PushCall(p) ==
    /\ p_pc[p] = "idle"
    /\ CallsMade < MaxOps
    /\ p_pc' = [p_pc EXCEPT ![p] = "push_lock"]
    /\ p_item' = [p_item EXCEPT ![p] = [by |-> p, n |-> PushesBy(p) + 1]]
    /\ UNCHANGED <<queue_, shutdown_, max_size_, q_mutex_, c_pc, c_item, s_pc, hist>>
    /\ UNCHANGED lvars
    /\ UNCHANGED xvars

\* std::lock_guard<std::mutex> lock(mutex_);
PushLock(p) ==
    /\ p_pc[p] = "push_lock"
    /\ q_mutex_ = NoOwner
    /\ q_mutex_' = ProducerId(p)
    /\ p_pc' = [p_pc EXCEPT ![p] = "push_body"]
    /\ UNCHANGED <<queue_, shutdown_, max_size_, p_item, c_pc, c_item, s_pc, hist>>
    /\ UNCHANGED lvars
    /\ UNCHANGED xvars

\* if (queue_.size() >= max_size_) return false;
\* queue_.push(item); cv_.notify_one(); return true;
PushBody(p) ==
    /\ p_pc[p] = "push_body"
    /\ q_mutex_ = ProducerId(p)
    /\ IF PushFull(queue_, max_size_)
       THEN /\ UNCHANGED <<queue_, c_pc>>
            /\ hist' = Append(hist, [op |-> "push", item |-> p_item[p],
                                     ok |-> FALSE, q |-> queue_])
       ELSE /\ queue_' = Enqueue(queue_, p_item[p])
            /\ c_pc' = Notify(c_pc)
            /\ hist' = Append(hist, [op |-> "push", item |-> p_item[p],
                                     ok |-> TRUE, q |-> queue_])
    /\ q_mutex_' = NoOwner
    /\ p_pc' = [p_pc EXCEPT ![p] = "idle"]
    /\ UNCHANGED <<shutdown_, max_size_, p_item, c_item, s_pc>>
    /\ UNCHANGED lvars
    /\ UNCHANGED xvars

(***************************************************************************)
(* bool pop(T& item)                                                       *)
(***************************************************************************)
PopCall ==
    /\ c_pc = "idle"
    /\ CallsMade < MaxOps
    /\ c_pc' = "pop_lock"
    /\ UNCHANGED <<queue_, shutdown_, max_size_, q_mutex_, p_pc, p_item, c_item, s_pc, hist>>
    /\ UNCHANGED lvars
    /\ UNCHANGED xvars

\* std::unique_lock<std::mutex> lock(mutex_), and the re-acquisition of the
\* mutex when wait() is woken
PopLock ==
    /\ c_pc \in {"pop_lock", "pop_woken"}
    /\ q_mutex_ = NoOwner
    /\ q_mutex_' = ConsumerId
    /\ c_pc' = "pop_pred"
    /\ UNCHANGED <<queue_, shutdown_, max_size_, p_pc, p_item, c_item, s_pc, hist>>
    /\ UNCHANGED lvars
    /\ UNCHANGED xvars

\* cv_.wait(lock, pred) is `while (!pred()) wait(lock);`: the predicate is
\* evaluated with the mutex held
PopPred ==
    /\ c_pc = "pop_pred"
    /\ q_mutex_ = ConsumerId
    /\ c_pc' = IF PopPredicate(queue_, shutdown_) THEN "pop_check" ELSE "pop_block"
    /\ UNCHANGED <<queue_, shutdown_, max_size_, q_mutex_, p_pc, p_item, c_item, s_pc, hist>>
    /\ UNCHANGED lvars
    /\ UNCHANGED xvars

\* wait(lock): releases the mutex and blocks, atomically
PopBlock ==
    /\ c_pc = "pop_block"
    /\ q_mutex_ = ConsumerId
    /\ q_mutex_' = NoOwner
    /\ c_pc' = "pop_wait"
    /\ UNCHANGED <<queue_, shutdown_, max_size_, p_pc, p_item, c_item, s_pc, hist>>
    /\ UNCHANGED lvars
    /\ UNCHANGED xvars

\* wait() may return without a notification
SpuriousWakeup ==
    /\ c_pc = "pop_wait"
    /\ c_pc' = "pop_woken"
    /\ UNCHANGED <<queue_, shutdown_, max_size_, q_mutex_, p_pc, p_item, c_item, s_pc, hist>>
    /\ UNCHANGED lvars
    /\ UNCHANGED xvars

\* if (shutdown_.load() && queue_.empty()) return false;
\* item = queue_.front(); queue_.pop(); return true;
PopFinish ==
    /\ c_pc = "pop_check"
    /\ q_mutex_ = ConsumerId
    /\ IF PopShutdownEmpty(queue_, shutdown_)
       THEN /\ UNCHANGED <<queue_, c_item>>
            /\ hist' = Append(hist, [op |-> "pop", item |-> NoItem,
                                     ok |-> FALSE, q |-> queue_])
       ELSE /\ queue_ # <<>>
            /\ c_item' = QFront(queue_)
            /\ queue_' = QPop(queue_)
            /\ hist' = Append(hist, [op |-> "pop", item |-> QFront(queue_),
                                     ok |-> TRUE, q |-> queue_])
    /\ q_mutex_' = NoOwner
    /\ c_pc' = "idle"
    /\ UNCHANGED <<shutdown_, max_size_, p_pc, p_item, s_pc>>
    /\ UNCHANGED lvars
    /\ UNCHANGED xvars

(***************************************************************************)
(* void shutdown(): neither statement takes the mutex                      *)
(***************************************************************************)
\* shutdown_.store(true);
ShutdownStore ==
    /\ s_pc = "idle"
    /\ CallsMade < MaxOps
    /\ shutdown_' = ShutdownStored
    /\ s_pc' = "notify"
    /\ hist' = Append(hist, [op |-> "shutdown", item |-> NoItem,
                             ok |-> TRUE, q |-> queue_])
    /\ UNCHANGED <<queue_, max_size_, q_mutex_, p_pc, p_item, c_pc, c_item>>
    /\ UNCHANGED lvars
    /\ UNCHANGED xvars

\* cv_.notify_all();
ShutdownNotify ==
    /\ s_pc = "notify"
    /\ c_pc' = Notify(c_pc)
    /\ s_pc' = "idle"
    /\ UNCHANGED <<queue_, shutdown_, max_size_, q_mutex_, p_pc, p_item, c_item, hist>>
    /\ UNCHANGED lvars
    /\ UNCHANGED xvars

QNext ==
    \/ \E p \in Producers : PushCall(p)
    \/ \E p \in Producers : PushLock(p)
    \/ \E p \in Producers : PushBody(p)
    \/ PopCall
    \/ PopLock
    \/ PopPred
    \/ PopBlock
    \/ SpuriousWakeup
    \/ PopFinish
    \/ ShutdownStore
    \/ ShutdownNotify

(***************************************************************************)
(* Logger over a FileOutput, synchronous path                              *)
(***************************************************************************)
\* enum class LogLevel : int
DEBUG == 0
INFO == 1
WARNING == 2
LogLevels == {DEBUG, INFO, WARNING}
NoLevel == WARNING + 1      \* defaultLevel_ not read yet

Threads == 1..NumThreads
NoThread == 0

NoCall == [n |-> 0, level |-> INFO, seen |-> NoLevel, valid |-> "unasked",
           invoked |-> FALSE, ret |-> FALSE, async |-> FALSE]

\* enum class LoggingError : int
SUCCESS == 0
FILE_OPEN_FAILED == 1001
FILE_WRITE_FAILED == 1002
SOCKET_CONNECTION_FAILED == 2001
SOCKET_WRITE_FAILED == 2002
CONFIG_PARSE_ERROR == 3001
QUEUE_OVERFLOW == 5001
ROTATION_FAILED == 6001
LoggingErrors == {SUCCESS, FILE_OPEN_FAILED, FILE_WRITE_FAILED,
                  SOCKET_CONNECTION_FAILED, SOCKET_WRITE_FAILED,
                  CONFIG_PARSE_ERROR, QUEUE_OVERFLOW, ROTATION_FAILED}

\* struct LoggerConfig { LogLevel defaultLevel = LogLevel::INFO; ... }
DefaultConfig == [defaultLevel |-> INFO]

\* no setDefaultLevel or setConfig call has completed
NoSet == [kind |-> "none", level |-> NoLevel, prev |-> NoLevel]

RECURSIVE SumUpTo(_, _)
SumUpTo(f, k) == IF k = 0 THEN 0 ELSE f[k] + SumUpTo(f, k - 1)

\* calls made on the Logger so far, by all threads
CallsOnLogger == SumUpTo(t_calls, NumThreads)

\* log: `static_cast<int>(level) < static_cast<int>(defaultLevel_)`
FilteredOutInclusive(level, threshold) == level <= threshold
FilteredOut(level, threshold) == level < threshold

\* FileOutput::isValid: `file_.is_open() && file_.good()`
FileIsOpen(open, good) == open
FileIsValid(open, good) == open /\ good

\* one piece of output of the stream: the text of a message or its end of line
Chunk(t, n, part) == [t |-> t, n |-> n, part |-> part]

\* no SocketOutput exists
NoDescriptor == 0 - 1
NoSocket ==
    /\ socket_fd_ = NoDescriptor
    /\ connected_ = FALSE
    /\ w_hist = <<>>

\* Logger(filename, defaultLevel): the file is opened for appending and the
\* open may fail; nothing is written yet.  The constructor names output_ and
\* defaultLevel_ only: config_ is a default LoggerConfig, async_running_ has
\* its initializer and last_error_ has none.
LConstructed ==
    /\ defaultLevel_ \in LogLevels
    /\ l_mutex_ = NoThread
    /\ file_open \in BOOLEAN
    /\ file_good = file_open
    /\ file_ = <<>>
    /\ t_pc = [t \in Threads |-> "idle"]
    /\ t_calls = [t \in Threads |-> 0]
    /\ t_arg = [t \in Threads |-> INFO]
    /\ cur = [t \in Threads |-> NoCall]
    /\ config_ = DefaultConfig
    /\ lastset = NoSet
    /\ async_running_ = FALSE
    /\ workers = 0
    /\ output_ = TRUE
    /\ NoSocket

\* last_error_ is read by getLastError only; where nothing calls it the
\* slot starts at one of the values it can hold
LInit ==
    /\ LConstructed
    /\ last_error_ = SUCCESS

\* a Logger nobody calls
LoggerIdle ==
    /\ defaultLevel_ = INFO
    /\ l_mutex_ = NoThread
    /\ file_open = TRUE
    /\ file_good = TRUE
    /\ file_ = <<>>
    /\ t_pc = [t \in Threads |-> "idle"]
    /\ t_calls = [t \in Threads |-> 0]
    /\ t_arg = [t \in Threads |-> INFO]
    /\ cur = [t \in Threads |-> NoCall]
    /\ config_ = DefaultConfig
    /\ lastset = NoSet
    /\ last_error_ = SUCCESS
    /\ async_running_ = FALSE
    /\ workers = 0
    /\ output_ = TRUE

LIdle ==
    /\ LoggerIdle
    /\ NoSocket

(***************************************************************************)
(* bool Logger::log(const std::string& message, LogLevel level)            *)
(***************************************************************************)
LogStart(t, level) ==
    /\ t_pc[t] = "idle"
    /\ t_pc' = [t_pc EXCEPT ![t] = "log_filter"]
    /\ t_calls' = [t_calls EXCEPT ![t] = @ + 1]
    /\ cur' = [cur EXCEPT ![t] = [NoCall EXCEPT !.n = t_calls[t] + 1,
                                                !.level = level,
                                                !.async = async_running_]]
    /\ UNCHANGED <<defaultLevel_, l_mutex_, file_open, file_good, file_, t_arg>>
    /\ UNCHANGED qvars
    /\ UNCHANGED xvars

LogCall(t, level) ==
    /\ CallsOnLogger < MaxCalls
    /\ LogStart(t, level)

\* bool info(const std::string& message) { return log(message, LogLevel::INFO); }
InfoCall(t) ==
    /\ t_calls[t] < MessagesPerThread
    /\ LogStart(t, INFO)

\* bool Logger::log(const std::string& message): defaultLevel_ is read,
\* without the mutex, for the argument of log(message, level)
DefaultLogCall(t) ==
    /\ CallsOnLogger < MaxCalls
    /\ LogStart(t, defaultLevel_)

\* if (level < defaultLevel_) return true;   defaultLevel_ is read without
\* the mutex
LogFilter(t) ==
    /\ t_pc[t] = "log_filter"
    /\ IF FilteredOut(cur[t].level, defaultLevel_)
       THEN /\ t_pc' = [t_pc EXCEPT ![t] = "idle"]
            /\ cur' = [cur EXCEPT ![t].seen = defaultLevel_, ![t].ret = TRUE]
       ELSE /\ t_pc' = [t_pc EXCEPT ![t] = "log_valid"]
            /\ cur' = [cur EXCEPT ![t].seen = defaultLevel_]
    /\ UNCHANGED <<defaultLevel_, l_mutex_, file_open, file_good, file_, t_calls, t_arg>>
    /\ UNCHANGED qvars
    /\ UNCHANGED xvars

\* if (!output_ || !output_->isValid()) return false;   output_ is set by the
\* constructor and the stream's state is read without the mutex
LogValid(t) ==
    /\ t_pc[t] = "log_valid"
    /\ IF FileIsValid(file_open, file_good)
       THEN /\ t_pc' = [t_pc EXCEPT ![t] = "log_lock"]
            /\ cur' = [cur EXCEPT ![t].valid = "valid"]
       ELSE /\ t_pc' = [t_pc EXCEPT ![t] = "idle"]
            /\ cur' = [cur EXCEPT ![t].valid = "invalid", ![t].ret = FALSE]
    /\ UNCHANGED <<defaultLevel_, l_mutex_, file_open, file_good, file_, t_calls, t_arg>>
    /\ UNCHANGED qvars
    /\ UNCHANGED xvars

\* std::lock_guard<std::mutex> lock(mutex_);
LogLockUnguarded(t) ==
    /\ t_pc[t] = "log_lock"
    /\ l_mutex_' = t
    /\ t_pc' = [t_pc EXCEPT ![t] = "write_text"]
    /\ UNCHANGED <<defaultLevel_, file_open, file_good, file_, t_calls, t_arg, cur>>
    /\ UNCHANGED qvars
    /\ UNCHANGED xvars

LogLock(t) ==
    /\ t_pc[t] = "log_lock"
    /\ l_mutex_ = NoThread
    /\ l_mutex_' = t
    /\ t_pc' = [t_pc EXCEPT ![t] = "write_text"]
    /\ UNCHANGED <<defaultLevel_, file_open, file_good, file_, t_calls, t_arg, cur>>
    /\ UNCHANGED qvars
    /\ UNCHANGED xvars

\* FileOutput::writeLog: if (!file_.is_open()) return false;
\* file_ << formattedMessage ...   an insertion into a stream that is not
\* good writes nothing, and one into a good stream may fail
WriteText(t) ==
    /\ t_pc[t] = "write_text"
    /\ IF ~file_open
       THEN /\ t_pc' = [t_pc EXCEPT ![t] = "idle"]
            /\ cur' = [cur EXCEPT ![t].invoked = TRUE, ![t].ret = FALSE]
            /\ l_mutex_' = NoThread
            /\ UNCHANGED <<file_good, file_>>
       ELSE /\ t_pc' = [t_pc EXCEPT ![t] = "write_endl"]
            /\ cur' = [cur EXCEPT ![t].invoked = TRUE]
            /\ UNCHANGED l_mutex_
            /\ IF file_good
               THEN \E written \in BOOLEAN :
                       IF written
                       THEN /\ file_' = Append(file_, Chunk(t, cur[t].n, "text"))
                            /\ UNCHANGED file_good
                       ELSE /\ file_good' = FALSE
                            /\ UNCHANGED file_
               ELSE UNCHANGED <<file_good, file_>>
    /\ UNCHANGED <<defaultLevel_, file_open, t_calls, t_arg>>
    /\ UNCHANGED qvars
    /\ UNCHANGED xvars

\* ... << std::endl; file_.flush(); return file_.good();   and the
\* lock_guard releases the mutex
WriteEndl(t) ==
    /\ t_pc[t] = "write_endl"
    /\ IF file_good
       THEN \E written \in BOOLEAN :
               IF written
               THEN /\ file_' = Append(file_, Chunk(t, cur[t].n, "endl"))
                    /\ UNCHANGED file_good
               ELSE /\ file_good' = FALSE
                    /\ UNCHANGED file_
       ELSE UNCHANGED <<file_good, file_>>
    /\ cur' = [cur EXCEPT ![t].ret = file_good']
    /\ l_mutex_' = NoThread
    /\ t_pc' = [t_pc EXCEPT ![t] = "idle"]
    /\ UNCHANGED <<defaultLevel_, file_open, t_calls, t_arg>>
    /\ UNCHANGED qvars
    /\ UNCHANGED xvars

(***************************************************************************)
(* void Logger::setDefaultLevel(LogLevel level)                            *)
(***************************************************************************)
SetDefaultLevelCall(t, level) ==
    /\ t_pc[t] = "idle"
    /\ CallsOnLogger < MaxCalls
    /\ t_pc' = [t_pc EXCEPT ![t] = "set_lock"]
    /\ t_calls' = [t_calls EXCEPT ![t] = @ + 1]
    /\ t_arg' = [t_arg EXCEPT ![t] = level]
    /\ UNCHANGED <<defaultLevel_, l_mutex_, file_open, file_good, file_, cur>>
    /\ UNCHANGED qvars
    /\ UNCHANGED xvars

\* std::lock_guard<std::mutex> lock(mutex_);
SetDefaultLevelLock(t) ==
    /\ t_pc[t] = "set_lock"
    /\ l_mutex_ = NoThread
    /\ l_mutex_' = t
    /\ t_pc' = [t_pc EXCEPT ![t] = "set_store"]
    /\ UNCHANGED <<defaultLevel_, file_open, file_good, file_, t_calls, t_arg, cur>>
    /\ UNCHANGED qvars
    /\ UNCHANGED xvars

\* defaultLevel_ = level;
SetDefaultLevelInConfig(t) ==
    /\ t_pc[t] = "set_store"
    /\ config_' = [config_ EXCEPT !.defaultLevel = t_arg[t]]
    /\ lastset' = [kind |-> "setDefaultLevel", level |-> t_arg[t],
                   prev |-> defaultLevel_]
    /\ l_mutex_' = NoThread
    /\ t_pc' = [t_pc EXCEPT ![t] = "idle"]
    /\ UNCHANGED <<defaultLevel_, file_open, file_good, file_, t_calls, t_arg, cur>>
    /\ UNCHANGED qvars
    /\ UNCHANGED <<evars, avars>>
    /\ UNCHANGED svars
    /\ UNCHANGED yvars

SetDefaultLevelStore(t) ==
    /\ t_pc[t] = "set_store"
    /\ defaultLevel_' = t_arg[t]
    /\ lastset' = [kind |-> "setDefaultLevel", level |-> t_arg[t],
                   prev |-> defaultLevel_]
    /\ l_mutex_' = NoThread
    /\ t_pc' = [t_pc EXCEPT ![t] = "idle"]
    /\ UNCHANGED <<file_open, file_good, file_, t_calls, t_arg, cur>>
    /\ UNCHANGED config_
    /\ UNCHANGED qvars
    /\ UNCHANGED <<evars, avars>>
    /\ UNCHANGED svars
    /\ UNCHANGED yvars

\* LoggingError Logger::getLastError() const { return last_error_; }
getLastError == last_error_

\* LogLevel Logger::getDefaultLevel() const: what a call returns that takes
\* the mutex in this state
getDefaultLevel == defaultLevel_

(***************************************************************************)
(* void Logger::setConfig(const LoggerConfig& config)                      *)
(***************************************************************************)
SetConfigCall(t, level) ==
    /\ t_pc[t] = "idle"
    /\ CallsOnLogger < MaxCalls
    /\ t_pc' = [t_pc EXCEPT ![t] = "cfg_lock"]
    /\ t_calls' = [t_calls EXCEPT ![t] = @ + 1]
    /\ t_arg' = [t_arg EXCEPT ![t] = level]
    /\ UNCHANGED <<defaultLevel_, l_mutex_, file_open, file_good, file_, cur>>
    /\ UNCHANGED qvars
    /\ UNCHANGED xvars

\* std::lock_guard<std::mutex> lock(mutex_);
SetConfigLock(t) ==
    /\ t_pc[t] = "cfg_lock"
    /\ l_mutex_ = NoThread
    /\ l_mutex_' = t
    /\ t_pc' = [t_pc EXCEPT ![t] = "cfg_store"]
    /\ UNCHANGED <<defaultLevel_, file_open, file_good, file_, t_calls, t_arg, cur>>
    /\ UNCHANGED qvars
    /\ UNCHANGED xvars

\* config_ = config; defaultLevel_ = config.defaultLevel;
SetConfigStore(t) ==
    /\ t_pc[t] = "cfg_store"
    /\ config_' = [config_ EXCEPT !.defaultLevel = t_arg[t]]
    /\ defaultLevel_' = t_arg[t]
    /\ lastset' = [kind |-> "setConfig", level |-> t_arg[t],
                   prev |-> defaultLevel_]
    /\ l_mutex_' = NoThread
    /\ t_pc' = [t_pc EXCEPT ![t] = "idle"]
    /\ UNCHANGED <<file_open, file_good, file_, t_calls, t_arg, cur>>
    /\ UNCHANGED qvars
    /\ UNCHANGED <<evars, avars>>
    /\ UNCHANGED svars
    /\ UNCHANGED yvars

LogSteps(t) ==
    \/ LogFilter(t)
    \/ LogValid(t)
    \/ LogLock(t)
    \/ WriteText(t)
    \/ WriteEndl(t)

LNext ==
    \/ \E t \in Threads, level \in LogLevels : LogCall(t, level)
    \/ \E t \in Threads : LogSteps(t)
    \/ \E t \in Threads, level \in LogLevels : SetDefaultLevelCall(t, level)
    \/ \E t \in Threads : SetDefaultLevelLock(t)
    \/ \E t \in Threads : SetDefaultLevelStore(t)
    \/ \E t \in Threads, level \in LogLevels : SetConfigCall(t, level)
    \/ \E t \in Threads : SetConfigLock(t)
    \/ \E t \in Threads : SetConfigStore(t)

\* testMultithreading: every thread writes its messages with info() to one
\* Logger(testFile, LogLevel::INFO)
MTNext ==
    \/ \E t \in Threads : InfoCall(t)
    \/ \E t \in Threads : LogSteps(t)

(***************************************************************************)
(* void Logger::enableAsync(bool enable), the worker and Logger::~Logger.  *)
(* Logger.cpp holds enableAsync and the destructor; the bodies of          *)
(* startAsyncWorker, stopAsyncWorker and asyncWorkerLoop are not in it and *)
(* follow the specification's section on the Logger: start spawns one      *)
(* thread that loops on pop, stop signals the queue to shut down and joins *)
(* the worker before it returns.                                           *)
(***************************************************************************)
DtorSteps == {"dtor_stop", "dtor_signal", "dtor_join", "dtor_release", "gone"}

\* the Logger exists and its destructor has not begun
Alive == output_ /\ \A t \in Threads : t_pc[t] \notin DtorSteps

AsyncLogCall(t, level) ==
    /\ Alive
    /\ LogCall(t, level)

EnableAsyncCall(t, enable) ==
    /\ Alive
    /\ t_pc[t] = "idle"
    /\ CallsOnLogger < MaxCalls
    /\ t_pc' = [t_pc EXCEPT ![t] = IF enable THEN "enable_check"
                                            ELSE "disable_check"]
    /\ t_calls' = [t_calls EXCEPT ![t] = @ + 1]
    /\ UNCHANGED <<defaultLevel_, l_mutex_, file_open, file_good, file_, t_arg, cur>>
    /\ UNCHANGED qvars
    /\ UNCHANGED xvars

\* if (enable && !async_running_) startAsyncWorker();
\* else if (!enable && async_running_) stopAsyncWorker();
\* the flag is loaded here and no lock is held until the call it leads to
EnableAsyncCheck(t) ==
    /\ t_pc[t] \in {"enable_check", "disable_check"}
    /\ t_pc' = [t_pc EXCEPT ![t] =
                  IF t_pc[t] = "enable_check" /\ ~async_running_
                  THEN "start_worker"
                  ELSE IF t_pc[t] = "disable_check" /\ async_running_
                       THEN "stop_signal"
                       ELSE "idle"]
    /\ UNCHANGED <<defaultLevel_, l_mutex_, file_open, file_good, file_, t_calls, t_arg, cur>>
    /\ UNCHANGED qvars
    /\ UNCHANGED xvars

\* startAsyncWorker(): a queue that is not shut down, one more thread in
\* asyncWorkerLoop, async_running_ = true
StartAsyncWorker(t) ==
    /\ t_pc[t] = "start_worker"
    /\ shutdown_' = FALSE
    /\ workers' = workers + 1
    /\ async_running_' = TRUE
    /\ t_pc' = [t_pc EXCEPT ![t] = "idle"]
    /\ UNCHANGED <<defaultLevel_, l_mutex_, file_open, file_good, file_, t_calls, t_arg, cur>>
    /\ UNCHANGED <<queue_, max_size_, q_mutex_, p_pc, p_item, c_pc, c_item, s_pc, hist>>
    /\ UNCHANGED <<cvars, evars, output_>>
    /\ UNCHANGED svars
    /\ UNCHANGED yvars

\* stopAsyncWorker(): async_queue_->shutdown() ...
StopSignal(t) ==
    /\ t_pc[t] \in {"stop_signal", "dtor_signal"}
    /\ shutdown_' = TRUE
    /\ t_pc' = [t_pc EXCEPT ![t] = IF t_pc[t] = "stop_signal" THEN "stop_join"
                                                             ELSE "dtor_join"]
    /\ UNCHANGED <<defaultLevel_, l_mutex_, file_open, file_good, file_, t_calls, t_arg, cur>>
    /\ UNCHANGED <<queue_, max_size_, q_mutex_, p_pc, p_item, c_pc, c_item, s_pc, hist>>
    /\ UNCHANGED xvars

\* ... async_worker_->join(); async_running_ = false
StopJoin(t) ==
    /\ t_pc[t] \in {"stop_join", "dtor_join"}
    /\ workers = 0
    /\ async_running_' = FALSE
    /\ t_pc' = [t_pc EXCEPT ![t] = IF t_pc[t] = "stop_join" THEN "idle"
                                                           ELSE "dtor_release"]
    /\ UNCHANGED <<defaultLevel_, l_mutex_, file_open, file_good, file_, t_calls, t_arg, cur>>
    /\ UNCHANGED qvars
    /\ UNCHANGED <<cvars, evars, workers, output_>>
    /\ UNCHANGED svars
    /\ UNCHANGED yvars

\* asyncWorkerLoop(): pop returns false on a queue that is shut down and
\* empty, and the loop ends
WorkerExit ==
    /\ workers > 0
    /\ PopShutdownEmpty(queue_, shutdown_)
    /\ workers' = workers - 1
    /\ UNCHANGED lvars
    /\ UNCHANGED qvars
    /\ UNCHANGED <<cvars, evars, async_running_, output_>>
    /\ UNCHANGED svars
    /\ UNCHANGED yvars

\* Logger::~Logger() runs when no call is in progress
DtorCall(t) ==
    /\ Alive
    /\ \A u \in Threads : t_pc[u] = "idle"
    /\ t_pc' = [t_pc EXCEPT ![t] = "dtor_stop"]
    /\ UNCHANGED <<defaultLevel_, l_mutex_, file_open, file_good, file_, t_calls, t_arg, cur>>
    /\ UNCHANGED qvars
    /\ UNCHANGED xvars

\* Logger::~Logger() { stopAsyncWorker(); }   which has nothing to stop
\* when no worker was started
DtorStop(t) ==
    /\ t_pc[t] = "dtor_stop"
    /\ t_pc' = [t_pc EXCEPT ![t] = IF async_running_ THEN "dtor_signal"
                                                     ELSE "dtor_release"]
    /\ UNCHANGED <<defaultLevel_, l_mutex_, file_open, file_good, file_, t_calls, t_arg, cur>>
    /\ UNCHANGED qvars
    /\ UNCHANGED xvars

\* the members are destroyed after the destructor's body, in reverse order
\* of declaration: output_, declared first, releases the backend last
DtorReleaseEarly(t) ==
    /\ t_pc[t] \in {"dtor_stop", "dtor_signal", "dtor_join", "dtor_release"}
    /\ output_' = FALSE
    /\ t_pc' = [t_pc EXCEPT ![t] = "gone"]
    /\ UNCHANGED <<defaultLevel_, l_mutex_, file_open, file_good, file_, t_calls, t_arg, cur>>
    /\ UNCHANGED qvars
    /\ UNCHANGED <<cvars, evars, async_running_, workers>>
    /\ UNCHANGED svars
    /\ UNCHANGED yvars

DtorRelease(t) ==
    /\ t_pc[t] = "dtor_release"
    /\ output_' = FALSE
    /\ t_pc' = [t_pc EXCEPT ![t] = "gone"]
    /\ UNCHANGED <<defaultLevel_, l_mutex_, file_open, file_good, file_, t_calls, t_arg, cur>>
    /\ UNCHANGED qvars
    /\ UNCHANGED <<cvars, evars, async_running_, workers>>
    /\ UNCHANGED svars
    /\ UNCHANGED yvars

AsyncNext ==
    \/ \E t \in Threads, level \in LogLevels : AsyncLogCall(t, level)
    \/ \E t \in Threads : LogSteps(t)
    \/ \E t \in Threads, enable \in BOOLEAN : EnableAsyncCall(t, enable)
    \/ \E t \in Threads : EnableAsyncCheck(t)
    \/ \E t \in Threads : StartAsyncWorker(t)
    \/ \E t \in Threads : StopSignal(t)
    \/ \E t \in Threads : StopJoin(t)
    \/ WorkerExit
    \/ \E t \in Threads : DtorCall(t)
    \/ \E t \in Threads : DtorStop(t)
    \/ \E t \in Threads : DtorRelease(t)

(***************************************************************************)
(* SocketOutput                                                            *)
(***************************************************************************)
\* a descriptor returned by socket()
Descriptor == 3

\* SocketOutput(host, port): connected_ = connect(); connect() leaves
\* socket_fd_ = -1 and returns false when socket(), inet_pton() or
\* ::connect() fails, and leaves the descriptor and returns true otherwise
SocketConstructed ==
    /\ \E ok \in BOOLEAN :
           /\ socket_fd_ = IF ok THEN Descriptor ELSE NoDescriptor
           /\ connected_ = ok
    /\ w_hist = <<>>

\* SocketOutput::isValid: `connected_ && socket_fd_ >= 0`
SocketIsValid(connected, fd) == connected /\ fd >= 0

\* what send() may return for `length` bytes: -1, or the bytes it took
SendResults(length) == {0 - 1} \cup (0..length)

\* the entry of w_hist for a call that returned before send()
NotSent == 0 - 2

\* bool SocketOutput::writeLog(const std::string& formattedMessage), with
\* message.length() = length and send() returning sent
SocketWriteLog(length, sent) ==
    /\ Len(w_hist) < MaxWrites
    /\ IF ~connected_ \/ socket_fd_ < 0
       THEN /\ w_hist' = Append(w_hist, [length |-> length, sent |-> NotSent,
                                         ret |-> FALSE])
            /\ UNCHANGED connected_
       ELSE IF sent < 0
            THEN /\ connected_' = FALSE
                 /\ w_hist' = Append(w_hist, [length |-> length, sent |-> sent,
                                              ret |-> FALSE])
            ELSE /\ UNCHANGED connected_
                 /\ w_hist' = Append(w_hist, [length |-> length, sent |-> sent,
                                              ret |-> (sent = length)])
    /\ UNCHANGED socket_fd_
    /\ UNCHANGED qvars
    /\ UNCHANGED lvars
    /\ UNCHANGED <<cvars, evars, avars>>
    /\ UNCHANGED yvars

\* ~SocketOutput() { disconnect(); }
SocketDisconnect ==
    /\ socket_fd_ >= 0 \/ connected_
    /\ socket_fd_' = NoDescriptor
    /\ connected_' = FALSE
    /\ UNCHANGED w_hist
    /\ UNCHANGED qvars
    /\ UNCHANGED lvars
    /\ UNCHANGED <<cvars, evars, avars>>
    /\ UNCHANGED yvars

SocketNext ==
    \/ \E length \in 1..MaxMsgLen : \E sent \in SendResults(length) :
           SocketWriteLog(length, sent)
    \/ SocketDisconnect

\* testStressMultithreading: thread i logs message j with
\* switch (j % 3) { case 0: debug; case 1: info; case 2: warning }
StressLevel(j) ==
    CASE j % 3 = 0 -> DEBUG
      [] j % 3 = 1 -> INFO
      [] OTHER -> WARNING

\* for (int j = 0; j < messagesPerThread; ++j)
StressCall(t) ==
    /\ t_calls[t] < MessagesPerThread
    /\ LogStart(t, StressLevel(t_calls[t]))

StressNext ==
    \/ \E t \in Threads : StressCall(t)
    \/ \E t \in Threads : LogSteps(t)

(***************************************************************************)
(* Logger lifetimes on one file: testRepeatedOpenClose creates a Logger,   *)
(* logs one message with log(message) and destroys it, again and again.    *)
(***************************************************************************)
\* no Logger has been destroyed yet
NoLives == lives = <<>>

\* file_.open(filename_, std::ios::app): what the file holds once opened
OpenTruncating(content) == <<>>
OpenAppending(content) == content

\* logging::Logger logger(testFile, logging::LogLevel::INFO): the open may
\* fail; the file keeps what earlier Loggers wrote
LifetimeBegin ==
    /\ ~output_
    /\ Len(lives) < MaxLifetimes
    /\ output_' = TRUE
    /\ defaultLevel_' = INFO
    /\ l_mutex_' = NoThread
    /\ file_open' \in BOOLEAN
    /\ file_good' = file_open'
    /\ file_' = OpenAppending(file_)
    /\ cur' = [t \in Threads |-> NoCall]
    /\ UNCHANGED <<t_pc, t_calls, t_arg>>
    /\ UNCHANGED qvars
    /\ UNCHANGED <<cvars, evars, async_running_, workers>>
    /\ UNCHANGED svars
    /\ UNCHANGED yvars

\* bool Logger::log(const std::string& message) { return log(message,
\* defaultLevel_); }   once per Logger
LifetimeLog(t) ==
    /\ output_
    /\ \A u \in Threads : cur[u].n = 0
    /\ LogStart(t, defaultLevel_)

\* the end of the loop body: ~Logger, and ~FileOutput closes the file
LifetimeEnd(t) ==
    /\ output_
    /\ cur[t].n > 0
    /\ t_pc[t] = "idle"
    /\ output_' = FALSE
    /\ file_open' = FALSE
    /\ file_good' = FALSE
    /\ lives' = Append(lives, [t |-> t, n |-> cur[t].n, ret |-> cur[t].ret])
    /\ UNCHANGED <<defaultLevel_, l_mutex_, file_, t_pc, t_calls, t_arg, cur>>
    /\ UNCHANGED qvars
    /\ UNCHANGED <<cvars, evars, async_running_, workers>>
    /\ UNCHANGED svars
    /\ UNCHANGED zvars

LifetimeNext ==
    \/ LifetimeBegin
    \/ \E t \in Threads : LifetimeLog(t)
    \/ \E t \in Threads : LogSteps(t)
    \/ \E t \in Threads : LifetimeEnd(t)

(***************************************************************************)
(* EnhancedSocketOutput: Logger.h declares the class, its flags and its    *)
(* reconnect thread; the bodies are not in Logger.cpp and follow the       *)
(* specification's reconnection state machine.                             *)
(***************************************************************************)
NoReconnect ==
    /\ e_connected_ = FALSE
    /\ reconnecting_ = FALSE
    /\ reconnect_mutex_ = NoThread
    /\ remaining = 0
    /\ attempts = 0
    /\ loops = 0
    /\ always_fails = FALSE
    /\ e_pc = [t \in Threads |-> "idle"]
    /\ e_calls = 0

\* what connect() may return
ConnectResults == IF always_fails THEN {FALSE} ELSE BOOLEAN

\* the constructor connects; a failure schedules the reconnect loop at once
EnhancedSocketConstructed ==
    /\ always_fails \in BOOLEAN
    /\ \E ok \in ConnectResults :
           /\ e_connected_ = ok
           /\ reconnecting_ = ~ok
           /\ loops = IF ok THEN 0 ELSE 1
           /\ remaining = IF ok THEN 0 ELSE MaxReconnectAttempts
    /\ attempts = 0
    /\ reconnect_mutex_ = NoThread
    /\ e_pc = [t \in Threads |-> "idle"]
    /\ e_calls = 0

\* isValid(): true iff the state is CONNECTED
EnhancedSocketIsValid == e_connected_

\* writeLog while not connected returns false at once and asks for the
\* reconnect loop
EnhancedWriteLog(t) ==
    /\ e_pc[t] = "idle"
    /\ e_calls < MaxWrites
    /\ e_calls' = e_calls + 1
    /\ e_pc' = [e_pc EXCEPT ![t] = IF e_connected_ THEN "send" ELSE "restart"]
    /\ UNCHANGED <<e_connected_, reconnecting_, reconnect_mutex_, remaining,
                   attempts, loops, always_fails>>
    /\ UNCHANGED NotReconnect

\* the send succeeds, or fails and the connection is lost
EnhancedSend(t) ==
    /\ e_pc[t] = "send"
    /\ \E ok \in BOOLEAN :
           IF ok
           THEN /\ e_pc' = [e_pc EXCEPT ![t] = "idle"]
                /\ UNCHANGED e_connected_
           ELSE /\ e_pc' = [e_pc EXCEPT ![t] = "restart"]
                /\ e_connected_' = FALSE
    /\ UNCHANGED <<reconnecting_, reconnect_mutex_, remaining, attempts, loops,
                   always_fails, e_calls>>
    /\ UNCHANGED NotReconnect

\* starting the loop: the flag is read and set under reconnect_mutex_
StartReconnectLockUnguarded(t) ==
    /\ e_pc[t] = "restart"
    /\ reconnect_mutex_' = t
    /\ e_pc' = [e_pc EXCEPT ![t] = "restart_check"]
    /\ UNCHANGED <<e_connected_, reconnecting_, remaining, attempts, loops,
                   always_fails, e_calls>>
    /\ UNCHANGED NotReconnect

StartReconnectLock(t) ==
    /\ e_pc[t] = "restart"
    /\ reconnect_mutex_ = NoThread
    /\ reconnect_mutex_' = t
    /\ e_pc' = [e_pc EXCEPT ![t] = "restart_check"]
    /\ UNCHANGED <<e_connected_, reconnecting_, remaining, attempts, loops,
                   always_fails, e_calls>>
    /\ UNCHANGED NotReconnect

\* a loop that is running, or a connection that is back, leaves nothing to
\* start
StartReconnectCheck(t) ==
    /\ e_pc[t] = "restart_check"
    /\ IF reconnecting_ \/ e_connected_
       THEN /\ e_pc' = [e_pc EXCEPT ![t] = "idle"]
            /\ reconnect_mutex_' = NoThread
       ELSE /\ e_pc' = [e_pc EXCEPT ![t] = "restart_spawn"]
            /\ UNCHANGED reconnect_mutex_
    /\ UNCHANGED <<e_connected_, reconnecting_, remaining, attempts, loops,
                   always_fails, e_calls>>
    /\ UNCHANGED NotReconnect

\* reconnecting_ = true; reconnect_thread_ = std::thread(reconnectLoop)
StartReconnectSpawn(t) ==
    /\ e_pc[t] = "restart_spawn"
    /\ reconnecting_' = TRUE
    /\ loops' = loops + 1
    /\ remaining' = MaxReconnectAttempts
    /\ attempts' = 0
    /\ reconnect_mutex_' = NoThread
    /\ e_pc' = [e_pc EXCEPT ![t] = "idle"]
    /\ UNCHANGED <<e_connected_, always_fails, e_calls>>
    /\ UNCHANGED NotReconnect

\* the loop gives up when its counter of remaining attempts reaches zero
AttemptsOverrun(left) == left < 0
AttemptsExhausted(left) == left = 0

\* reconnectLoop(): sleep, connect; success ends the loop connected, a
\* failure uses up one attempt
ReconnectLoopAttempt ==
    /\ loops > 0
    /\ attempts' = attempts + 1
    /\ \E ok \in ConnectResults :
           IF ok
           THEN /\ e_connected_' = TRUE
                /\ reconnecting_' = FALSE
                /\ loops' = loops - 1
                /\ UNCHANGED remaining
           ELSE /\ remaining' = remaining - 1
                /\ UNCHANGED e_connected_
                /\ IF AttemptsExhausted(remaining')
                   THEN reconnecting_' = FALSE /\ loops' = loops - 1
                   ELSE UNCHANGED <<reconnecting_, loops>>
    /\ UNCHANGED <<reconnect_mutex_, always_fails, e_pc, e_calls>>
    /\ UNCHANGED NotReconnect

ReconnectNext ==
    \/ \E t \in Threads : EnhancedWriteLog(t)
    \/ \E t \in Threads : EnhancedSend(t)
    \/ \E t \in Threads : StartReconnectLock(t)
    \/ \E t \in Threads : StartReconnectCheck(t)
    \/ \E t \in Threads : StartReconnectSpawn(t)
    \/ ReconnectLoopAttempt

(***************************************************************************)
(* EnhancedFileOutput and LogRotator: Logger.h declares both; the bodies   *)
(* are not in Logger.cpp and follow the specification's rotation policy.   *)
(***************************************************************************)
Mib == 1024 * 1024

\* the names base.k that can exist
Numbers == 1..(MaxFiles + 1)

NoRotation ==
    /\ max_size_mb = 1
    /\ max_files_ = 1
    /\ current_size_ = 0
    /\ numbered = [k \in Numbers |-> 0]
    /\ active = 1
    /\ rotate_calls = 0
    /\ o_calls = 0

\* EnhancedFileOutput(filename, max_size_mb, max_files, compress)
EnhancedFileConstructed ==
    /\ max_size_mb \in 1..MaxSizeMB
    /\ max_files_ \in 1..MaxFiles
    /\ current_size_ = 0
    /\ numbered = [k \in Numbers |-> 0]
    /\ active = 1
    /\ rotate_calls = 0
    /\ o_calls = 0

\* byte lengths of the formatted messages written
WriteSizes == {Mib \div 2, Mib}

\* LogRotator::shouldRotate
ShouldRotateLate(current_size) == current_size > max_size_mb * Mib
ShouldRotate(current_size) == current_size >= max_size_mb * Mib

\* the highest number a file keeps through a rotation
KeepsAll(max_files) == max_files + 1
HighestKept(max_files) == max_files - 1

\* step 1: the file numbered max_files - 1 is deleted
DeleteOldest(files) ==
    [k \in Numbers |-> IF k = HighestKept(max_files_) THEN 0 ELSE files[k]]

\* step 2: every base.k moves to base.k+1, from the highest k down to 1
ShiftUp(files) ==
    [k \in Numbers |->
        IF k > HighestKept(max_files_) THEN files[k]
        ELSE IF k > 1 THEN files[k - 1]
        ELSE IF HighestKept(max_files_) > 1 THEN 0
        ELSE files[k]]

\* step 3: the active file moves to base.1
MoveActive(files) == [files EXCEPT ![1] = active]

\* LogRotator::rotate, stopped by a failing filesystem step after `done`
\* of its three steps
Rotate(files, done) ==
    IF done = 0 THEN files
    ELSE IF done = 1 THEN DeleteOldest(files)
    ELSE IF done = 2 THEN ShiftUp(DeleteOldest(files))
    ELSE MoveActive(ShiftUp(DeleteOldest(files)))

\* EnhancedFileOutput::writeLog: rotate first if the rotator says so, then
\* write and add the bytes to current_size_
EnhancedFileWriteLog ==
    /\ o_calls < MaxRotWrites
    /\ o_calls' = o_calls + 1
    /\ \E size \in WriteSizes :
          IF ShouldRotate(current_size_)
          THEN \E done \in 0..3 :
                  /\ rotate_calls' = rotate_calls + 1
                  /\ numbered' = Rotate(numbered, done)
                  /\ active' = IF done = 3 THEN active + 1 ELSE active
                  /\ current_size_' = IF done = 3 THEN size
                                                  ELSE current_size_ + size
          ELSE /\ current_size_' = current_size_ + size
               /\ UNCHANGED <<numbered, active, rotate_calls>>
    /\ UNCHANGED <<max_size_mb, max_files_>>
    /\ UNCHANGED NotRotation

RotationNext == EnhancedFileWriteLog

(***************************************************************************)
(* logLevelToString and stringToLogLevel.  Strings are sequences of        *)
(* characters.  Logger.cpp names six enumerators, Logger.h declares three: *)
(* TRACE, ERROR and FATAL have whatever values a declaration gives them,   *)
(* distinct from each other and from the three declared ones because all   *)
(* six are case labels of one switch.                                      *)
(***************************************************************************)
Undeclared == {"TRACE", "ERROR", "FATAL"}

Enumerations ==
    {f \in [Undeclared -> 3..5] :
        \A a, b \in Undeclared : a # b => f[a] # f[b]}

LowerCase == <<"a", "b", "c", "d", "e", "f", "g", "h", "i", "j", "k", "l", "m",
               "n", "o", "p", "q", "r", "s", "t", "u", "v", "w", "x", "y", "z">>
UpperCase == <<"A", "B", "C", "D", "E", "F", "G", "H", "I", "J", "K", "L", "M",
               "N", "O", "P", "Q", "R", "S", "T", "U", "V", "W", "X", "Y", "Z">>

\* ::toupper and ::tolower on one character
ToUpper(c) ==
    IF \E i \in 1..26 : LowerCase[i] = c
    THEN UpperCase[CHOOSE i \in 1..26 : LowerCase[i] = c]
    ELSE c
ToLower(c) ==
    IF \E i \in 1..26 : UpperCase[i] = c
    THEN LowerCase[CHOOSE i \in 1..26 : UpperCase[i] = c]
    ELSE c

\* the string literals of Logger.cpp
Name ==
    [TRACE |-> <<"T", "R", "A", "C", "E">>,
     DEBUG |-> <<"D", "E", "B", "U", "G">>,
     INFO |-> <<"I", "N", "F", "O">>,
     WARNING |-> <<"W", "A", "R", "N", "I", "N", "G">>,
     ERROR |-> <<"E", "R", "R", "O", "R">>,
     FATAL |-> <<"F", "A", "T", "A", "L">>,
     UNKNOWN |-> <<"U", "N", "K", "N", "O", "W", "N">>]

logLevelToString(level) ==
    IF level = enumerators.TRACE THEN Name.TRACE
    ELSE IF level = DEBUG THEN Name.DEBUG
    ELSE IF level = INFO THEN Name.INFO
    ELSE IF level = WARNING THEN Name.WARNING
    ELSE IF level = enumerators.ERROR THEN Name.ERROR
    ELSE IF level = enumerators.FATAL THEN Name.FATAL
    ELSE Name.UNKNOWN

stringToLogLevel(levelStr) ==
    LET upper == [i \in 1..Len(levelStr) |-> ToUpper(levelStr[i])]
    IN  IF upper = Name.TRACE THEN enumerators.TRACE
        ELSE IF upper = Name.DEBUG THEN DEBUG
        ELSE IF upper = Name.INFO THEN INFO
        ELSE IF upper = Name.WARNING THEN WARNING
        ELSE IF upper = Name.ERROR THEN enumerators.ERROR
        ELSE IF upper = Name.FATAL THEN enumerators.FATAL
        ELSE INFO

\* the strings converted: each word in every mix of upper and lower case
Words ==
    {Name.TRACE, Name.DEBUG, Name.INFO, Name.WARNING, Name.ERROR, Name.FATAL,
     Name.UNKNOWN, <<>>, <<"I", "N", "F">>, <<"I", "N", "F", "O", "1">>}

Cased(word, lower) ==
    [i \in 1..Len(word) |-> IF lower[i] THEN ToLower(word[i]) ELSE word[i]]

NoNames ==
    /\ enumerators = CHOOSE f \in Enumerations : TRUE
    /\ n_level = INFO
    /\ n_word = <<>>
    /\ n_name = <<>>
    /\ n_result = <<>>
    /\ n_pc = "idle"

NamesStart ==
    /\ enumerators \in Enumerations
    /\ n_level \in LogLevels
    /\ n_word = <<>>
    /\ n_name = <<>>
    /\ n_result = <<>>
    /\ n_pc = "idle"

\* name = logLevelToString(level)
CallLogLevelToString ==
    /\ n_pc = "idle"
    /\ n_name' = logLevelToString(n_level)
    /\ n_word' = n_name'
    /\ n_pc' = "named"
    /\ UNCHANGED <<enumerators, n_level, n_result>>
    /\ UNCHANGED NotNames

\* stringToLogLevel(name)
CallStringToLogLevelOfName ==
    /\ n_pc = "named"
    /\ n_result' = <<stringToLogLevel(n_name)>>
    /\ n_pc' = "round"
    /\ UNCHANGED <<enumerators, n_level, n_word, n_name>>
    /\ UNCHANGED NotNames

\* stringToLogLevel(s) for a string s of the caller
CallStringToLogLevel ==
    /\ n_pc = "idle"
    /\ \E word \in Words : \E lower \in [1..Len(word) -> BOOLEAN] :
           /\ n_word' = word
           /\ n_name' = Cased(word, lower)
    /\ n_result' = <<stringToLogLevel(n_name')>>
    /\ n_pc' = "parsed"
    /\ UNCHANGED <<enumerators, n_level>>
    /\ UNCHANGED NotNames

NamesNext ==
    \/ CallLogLevelToString
    \/ CallStringToLogLevelOfName
    \/ CallStringToLogLevel

(***************************************************************************)
(* log_stats: LogStatistics, updated by the receive loop and read and      *)
(* reset by timeoutChecker on a second thread, with no lock between them.  *)
(***************************************************************************)
SIZE_MAX == 2147483647  \* stands for the largest size_t
Hour == 3600            \* std::chrono::hours(1), in seconds

\* the fields of a LogStatistics as its member initialisers leave them
StatsConstructed ==
    /\ totalMessages = 0
    /\ messagesByLevel = <<>>
    /\ messagesLastHour = 0
    /\ minLength = SIZE_MAX
    /\ maxLength = 0
    /\ avgLength = <<0, 1>>
    /\ totalLength = 0
    /\ timestamps = <<>>
    /\ lastStatsOutput = 0
    /\ statsChanged = FALSE
    /\ now = 0
    /\ reported = 0
    /\ lengths = {}
    /\ k_pc = "recv"
    /\ tc_pc = "sleep"
    /\ tc_sleep = 0

NoCollector ==
    /\ messagesInterval = 1
    /\ timeoutSeconds = 1
    /\ inputs = {}
    /\ StatsConstructed

\* main() accepts N > 0 and T > 0 only; every client sends the same line
CollectorStarted ==
    /\ messagesInterval \in 1..MaxInterval
    /\ timeoutSeconds \in 1..MaxTimeout
    /\ inputs = {<<2, INFO>>}
    /\ StatsConstructed

\* one N and one T; the clients send lines of three kinds
StatsStarted ==
    /\ messagesInterval = MaxInterval
    /\ timeoutSeconds = MaxTimeout
    /\ inputs = {<<0, DEBUG>>, <<2, INFO>>, <<3, WARNING>>}
    /\ StatsConstructed

\* timestamps.erase(remove_if(... timestamp < hourAgo ...))
KeepLastHour(stamps, hourAgo) ==
    SelectSeq(stamps, LAMBDA stamp : ~(stamp < hourAgo))

\* messagesByLevel[level]++ on a std::map
CountLevelOnce(counts, level) == counts @@ (level :> 1)
CountLevel(counts, level) ==
    IF level \in DOMAIN counts
    THEN [counts EXCEPT ![level] = @ + 1]
    ELSE counts @@ (level :> 1)

Min(a, b) == IF b < a THEN b ELSE a
Max(a, b) == IF a < b THEN b ELSE a

\* the clock moves on, by a second or by an hour
Tick ==
    /\ \/ (now % Hour) < MaxSeconds /\ now' = now + 1
       \/ (now \div Hour) < MaxHours /\ now' = now + Hour
    /\ UNCHANGED <<messagesInterval, timeoutSeconds, totalMessages,
                   messagesByLevel, messagesLastHour, minLength, maxLength,
                   avgLength, totalLength, timestamps, lastStatsOutput,
                   statsChanged, reported, lengths, inputs, k_pc, tc_pc,
                   tc_sleep>>
    /\ UNCHANGED NotCollector

\* LogStatistics::addMessage up to messagesLastHour = timestamps.size()
AddMessageCounts ==
    /\ k_pc = "recv"
    /\ totalMessages < MaxMessages
    /\ \E line \in inputs :
          LET messageLength == line[1]
              level == line[2]
          IN
          /\ totalMessages' = totalMessages + 1
          /\ messagesByLevel' = CountLevel(messagesByLevel, level)
          /\ totalLength' = totalLength + messageLength
          /\ minLength' = Min(minLength, messageLength)
          /\ maxLength' = Max(maxLength, messageLength)
          /\ avgLength' = <<totalLength', totalMessages'>>
          /\ timestamps' = KeepLastHour(Append(timestamps, now), now - Hour)
          /\ messagesLastHour' = Len(timestamps')
          /\ lengths' = lengths \cup {messageLength}
    /\ k_pc' = "changed"
    /\ UNCHANGED <<messagesInterval, timeoutSeconds, lastStatsOutput,
                   statsChanged, now, reported, inputs, tc_pc, tc_sleep>>
    /\ UNCHANGED NotCollector

\* statsChanged = true, the last statement of addMessage
AddMessageChanged ==
    /\ k_pc = "changed"
    /\ statsChanged' = TRUE
    /\ k_pc' = "check"
    /\ UNCHANGED <<messagesInterval, timeoutSeconds, totalMessages,
                   messagesByLevel, messagesLastHour, minLength, maxLength,
                   avgLength, totalLength, timestamps, lastStatsOutput, now,
                   reported, lengths, inputs, tc_pc, tc_sleep>>
    /\ UNCHANGED NotCollector

\* LogStatistics::shouldPrintStats
shouldPrintStats ==
    \/ totalMessages % messagesInterval = 0 /\ totalMessages > 0
    \/ statsChanged /\ (now - lastStatsOutput) >= timeoutSeconds

\* the receive loop's check after addMessage
ReceiveCheck ==
    /\ k_pc = "check"
    /\ k_pc' = IF shouldPrintStats THEN "print" ELSE "recv"
    /\ UNCHANGED <<messagesInterval, timeoutSeconds, totalMessages,
                   messagesByLevel, messagesLastHour, minLength, maxLength,
                   avgLength, totalLength, timestamps, lastStatsOutput,
                   statsChanged, now, reported, lengths, inputs, tc_pc, tc_sleep>>
    /\ UNCHANGED NotCollector

\* timeoutChecker: sleep a second, then check
TimeoutCheck ==
    /\ tc_pc = "sleep"
    /\ now >= tc_sleep + 1
    /\ tc_pc' = IF shouldPrintStats THEN "print" ELSE "sleep"
    /\ tc_sleep' = now
    /\ UNCHANGED <<messagesInterval, timeoutSeconds, totalMessages,
                   messagesByLevel, messagesLastHour, minLength, maxLength,
                   avgLength, totalLength, timestamps, lastStatsOutput,
                   statsChanged, now, reported, lengths, inputs, k_pc>>
    /\ UNCHANGED NotCollector

\* LogStatistics::printStatistics: the counters go to std::cout
PrintCounters(receiving) ==
    /\ IF receiving
       THEN k_pc = "print" /\ k_pc' = "printed" /\ UNCHANGED tc_pc
       ELSE tc_pc = "print" /\ tc_pc' = "printed" /\ UNCHANGED k_pc
    /\ reported' = totalMessages
    /\ UNCHANGED <<messagesInterval, timeoutSeconds, totalMessages,
                   messagesByLevel, messagesLastHour, minLength, maxLength,
                   avgLength, totalLength, timestamps, lastStatsOutput,
                   statsChanged, now, lengths, inputs, tc_sleep>>
    /\ UNCHANGED NotCollector

\* lastStatsOutput = now(); statsChanged = false
PrintReset(receiving) ==
    /\ IF receiving
       THEN k_pc = "printed" /\ k_pc' = "recv" /\ UNCHANGED <<tc_pc, tc_sleep>>
       ELSE tc_pc = "printed" /\ tc_pc' = "sleep" /\ tc_sleep' = now
            /\ UNCHANGED k_pc
    /\ lastStatsOutput' = now
    /\ statsChanged' = FALSE
    /\ UNCHANGED <<messagesInterval, timeoutSeconds, totalMessages,
                   messagesByLevel, messagesLastHour, minLength, maxLength,
                   avgLength, totalLength, timestamps, now, reported, lengths,
                   inputs>>
    /\ UNCHANGED NotCollector

CollectorNext ==
    \/ Tick
    \/ AddMessageCounts
    \/ AddMessageChanged
    \/ ReceiveCheck
    \/ TimeoutCheck
    \/ \E receiving \in BOOLEAN : PrintCounters(receiving)
    \/ \E receiving \in BOOLEAN : PrintReset(receiving)

\* the receive loop alone
ReceiveNext ==
    \/ Tick
    \/ AddMessageCounts
    \/ AddMessageChanged
    \/ ReceiveCheck
    \/ PrintCounters(TRUE)
    \/ PrintReset(TRUE)

(***************************************************************************)
(* log_stats: the receive loop cuts the bytes of a connection into lines.  *)
(* A byte is a string of one character; NUL is the zero byte.              *)
(***************************************************************************)
NUL == "NUL"

Bytes == {"a", "\n", "\r", NUL}

\* all strings of at most n of the given characters
StringsOver(chars, n) == UNION {[1..k -> chars] : k \in 0..n}

\* std::string::find(c, from), positions counted from 1 and 0 for npos
FindFrom(s, c, from) ==
    IF \E i \in from..Len(s) : s[i] = c
    THEN CHOOSE i \in from..Len(s) :
             s[i] = c /\ \A j \in from..(i - 1) : s[j] # c
    ELSE 0

\* std::string(buffer): the characters before the first zero byte
CString(buffer) ==
    IF FindFrom(buffer, NUL, 1) = 0 THEN buffer
    ELSE SubSeq(buffer, 1, FindFrom(buffer, NUL, 1) - 1)

\* the while loop over data.find('\n'): the lines handed on and what is
\* left of data
RECURSIVE SplitLines(_, _)
SplitLines(data, out) ==
    LET pos == FindFrom(data, "\n", 1)
        line == SubSeq(data, 1, pos - 1)
        rest == SubSeq(data, pos + 1, Len(data))
    IN  IF pos = 0 THEN [lines |-> out, data |-> data]
        ELSE IF line = <<>> THEN SplitLines(rest, out)
        ELSE IF line[Len(line)] = "\r"
             THEN SplitLines(rest, Append(out, SubSeq(line, 1, Len(line) - 1)))
             ELSE SplitLines(rest, Append(out, line))

NoReceive ==
    /\ stream = <<>>
    /\ received = 0
    /\ partialMessage = <<>>
    /\ handed = <<>>

\* a client has connected; partialMessage starts empty
Connected ==
    /\ stream \in StringsOver(Bytes, MaxStream)
    /\ received = 0
    /\ partialMessage = <<>>
    /\ handed = <<>>

\* recv returns the next bytesRead bytes; the loop body runs on them
RecvChunk ==
    /\ \E bytesRead \in 1..(Len(stream) - received) :
          LET buffer == SubSeq(stream, received + 1, received + bytesRead)
              split == SplitLines(partialMessage \o CString(buffer), <<>>)
          IN  /\ received' = received + bytesRead
              /\ handed' = handed \o split.lines
              /\ partialMessage' = split.data
    /\ UNCHANGED stream
    /\ UNCHANGED NotReceive

ReceiveLinesNext == RecvChunk

(***************************************************************************)
(* log_stats: parseLogMessage                                              *)
(***************************************************************************)
\* rawMessage.find(']', from)
LastClosingBracket(raw, from) ==
    IF \E i \in from..Len(raw) : raw[i] = "]"
    THEN CHOOSE i \in from..Len(raw) :
             raw[i] = "]" /\ \A j \in (i + 1)..Len(raw) : raw[j] # "]"
    ELSE 0
ClosingBracket(raw, from) == FindFrom(raw, "]", from)

\* rawMessage.find_first_not_of(" \t", from)
FindFirstNotOfBlank(raw, from) ==
    IF \E i \in from..Len(raw) : raw[i] \notin {" ", "\t"}
    THEN CHOOSE i \in from..Len(raw) :
             /\ raw[i] \notin {" ", "\t"}
             /\ \A j \in from..(i - 1) : raw[j] \in {" ", "\t"}
    ELSE 0

\* parseLogMessage: <<false>> or <<true, message, level>>
parseLogMessage(raw) ==
    LET firstBracket == FindFrom(raw, "[", 1)
        secondBracket == ClosingBracket(raw, firstBracket)
        thirdBracket == FindFrom(raw, "[", secondBracket)
        fourthBracket == ClosingBracket(raw, thirdBracket)
        levelStr == SubSeq(raw, thirdBracket + 1, fourthBracket - 1)
        messageStart == FindFirstNotOfBlank(raw, fourthBracket + 1)
    IN  IF firstBracket = 0 THEN <<FALSE>>
        ELSE IF secondBracket = 0 THEN <<FALSE>>
        ELSE IF thirdBracket = 0 THEN <<FALSE>>
        ELSE IF fourthBracket = 0 THEN <<FALSE>>
        ELSE <<TRUE,
               IF messageStart = 0 THEN <<>>
               ELSE SubSeq(raw, messageStart, Len(raw)),
               stringToLogLevel(levelStr)>>

\* "[ts] [LEVEL] text", as Logger::log writes a line
Formatted(ts, level, text) ==
    <<"[">> \o ts \o <<"]", " ", "[">> \o level \o <<"]", " ">> \o text

\* Logger::getCurrentTime: "%Y-%m-%d %H:%M:%S" and ".mmm", a digit a field
getCurrentTime ==
    {<<"1", "-", "1", "-", "1", " ", "1", ":", "1", ":", "1", ".", "0">>,
     <<"2", "-", "1", "-", "1", " ", "0", ":", "0", ":", "0", ".", "9">>}

\* Logger::formatMessage, time being what getCurrentTime() returned
formatMessage(message, level, time) ==
    <<"[">> \o time \o <<"]", " ">> \o
    <<"[">> \o logLevelToString(level) \o <<"]", " ">> \o message

\* the characters of the messages formatted
MessageChars == {"m", "[", "]", " ", "\t"}

\* the level fields tried
LevelFields ==
    {Name.DEBUG, Name.WARNING, [i \in 1..4 |-> ToLower(Name.INFO[i])], <<"x">>}

NoParser ==
    /\ rawMessage = <<>>
    /\ p_fields = <<>>
    /\ p_out = <<>>

\* a formatted line, or any short line of brackets, letters and blanks
LineReceived ==
    /\ \/ /\ p_fields \in StringsOver({"t", " "}, 2) \X LevelFields
                          \X StringsOver({"m", "[", "]", " "}, MaxLine)
          /\ rawMessage = Formatted(p_fields[1], p_fields[2], p_fields[3])
       \/ /\ p_fields = <<>>
          /\ rawMessage \in StringsOver({"[", "]", "x", " "}, MaxLine)
    /\ p_out = <<>>

\* a line as Logger::formatMessage builds it for a level and a message
LineFormatted ==
    /\ \E level \in LogLevels, message \in StringsOver(MessageChars, MaxLine),
          time \in getCurrentTime :
          /\ p_fields = <<time, logLevelToString(level), message>>
          /\ rawMessage = formatMessage(message, level, time)
    /\ p_out = <<>>

CallParseLogMessage ==
    /\ p_out = <<>>
    /\ p_out' = parseLogMessage(rawMessage)
    /\ UNCHANGED <<rawMessage, p_fields>>
    /\ UNCHANGED NotParser

ParserNext == CallParseLogMessage

(***************************************************************************)
(* The interactive front end: main pushes the messages it reads onto a     *)
(* ThreadSafeQueue, loggerWorker pops them and calls Logger::log; on quit  *)
(* main calls shutdown() and joins the worker.                             *)
(***************************************************************************)
FrontEndStarted ==
    /\ tq_queue_ = <<>>
    /\ tq_mutex_ = "free"
    /\ tq_shutdown_ = FALSE
    /\ m_pc = "getline"
    /\ w_pc = "pop"
    /\ w_message = 0
    /\ pushed = <<>>
    /\ passed = <<>>

\* notify_one / notify_all with the one waiter there can be
Notified(pc) == IF pc = "wait" THEN "woken" ELSE pc

\* main reads a message; ThreadSafeQueue::push under the lock
MainPush ==
    /\ m_pc = "getline"
    /\ Len(pushed) < MaxInputs
    /\ tq_mutex_ = "free"
    /\ tq_queue_' = Append(tq_queue_, Len(pushed) + 1)
    /\ pushed' = Append(pushed, Len(pushed) + 1)
    /\ w_pc' = Notified(w_pc)
    /\ UNCHANGED <<tq_mutex_, tq_shutdown_, m_pc, w_message, passed>>
    /\ UNCHANGED NotFrontEnd

\* quit, exit or end of input; ThreadSafeQueue::shutdown: shutdown_.store(true)
QueueShutdownStore ==
    /\ m_pc = "getline"
    /\ tq_shutdown_' = TRUE
    /\ m_pc' = "notify"
    /\ UNCHANGED <<tq_queue_, tq_mutex_, w_pc, w_message, pushed, passed>>
    /\ UNCHANGED NotFrontEnd

\* ThreadSafeQueue::shutdown: condition_.notify_all(), mutex_ not held
QueueShutdownNotify ==
    /\ m_pc = "notify"
    /\ w_pc' = Notified(w_pc)
    /\ m_pc' = "join"
    /\ UNCHANGED <<tq_queue_, tq_mutex_, tq_shutdown_, w_message, pushed, passed>>
    /\ UNCHANGED NotFrontEnd

\* workerThread.join()
MainJoin ==
    /\ m_pc = "join"
    /\ w_pc = "returned"
    /\ m_pc' = "done"
    /\ UNCHANGED <<tq_queue_, tq_mutex_, tq_shutdown_, w_pc, w_message, pushed,
                   passed>>
    /\ UNCHANGED NotFrontEnd

\* ThreadSafeQueue::pop: the unique_lock is taken, at entry and when wait
\* returns
WorkerLock ==
    /\ w_pc \in {"pop", "woken"}
    /\ tq_mutex_ = "free"
    /\ tq_mutex_' = "worker"
    /\ w_pc' = "pred"
    /\ UNCHANGED <<tq_queue_, tq_shutdown_, m_pc, w_message, pushed, passed>>
    /\ UNCHANGED NotFrontEnd

\* the predicate of condition_.wait
WorkerPred ==
    /\ w_pc = "pred"
    /\ w_pc' = IF tq_queue_ # <<>> \/ tq_shutdown_ THEN "take" ELSE "block"
    /\ UNCHANGED <<tq_queue_, tq_mutex_, tq_shutdown_, m_pc, w_message, pushed,
                   passed>>
    /\ UNCHANGED NotFrontEnd

\* wait(lock): the mutex is released and the thread blocks, atomically
WorkerBlock ==
    /\ w_pc = "block"
    /\ tq_mutex_' = "free"
    /\ w_pc' = "wait"
    /\ UNCHANGED <<tq_queue_, tq_shutdown_, m_pc, w_message, pushed, passed>>
    /\ UNCHANGED NotFrontEnd

\* wait may return without a notification
WorkerSpuriousWakeup ==
    /\ w_pc = "wait"
    /\ w_pc' = "woken"
    /\ UNCHANGED <<tq_queue_, tq_mutex_, tq_shutdown_, m_pc, w_message, pushed,
                   passed>>
    /\ UNCHANGED NotFrontEnd

\* if (queue_.empty()) return false; message = queue_.front(); queue_.pop()
WorkerTake ==
    /\ w_pc = "take"
    /\ tq_mutex_' = "free"
    /\ IF tq_queue_ = <<>>
       THEN /\ w_pc' = "returned"
            /\ UNCHANGED <<tq_queue_, w_message>>
       ELSE /\ w_pc' = "log"
            /\ w_message' = Head(tq_queue_)
            /\ tq_queue_' = Tail(tq_queue_)
    /\ UNCHANGED <<tq_shutdown_, m_pc, pushed, passed>>
    /\ UNCHANGED NotFrontEnd

\* logger.log(message.text, message.level)
WorkerLog ==
    /\ w_pc = "log"
    /\ passed' = Append(passed, w_message)
    /\ w_pc' = "pop"
    /\ UNCHANGED <<tq_queue_, tq_mutex_, tq_shutdown_, m_pc, w_message, pushed>>
    /\ UNCHANGED NotFrontEnd

FrontEndNext ==
    \/ MainPush
    \/ QueueShutdownStore
    \/ QueueShutdownNotify
    \/ MainJoin
    \/ WorkerLock
    \/ WorkerPred
    \/ WorkerBlock
    \/ WorkerSpuriousWakeup
    \/ WorkerTake
    \/ WorkerLog

\* every step of a running thread is taken in the end; a wakeup without a
\* notification is never owed
FrontEndFairness ==
    /\ WF_vars(QueueShutdownStore)
    /\ WF_vars(QueueShutdownNotify)
    /\ WF_vars(MainJoin)
    /\ WF_vars(WorkerLock)
    /\ WF_vars(WorkerPred)
    /\ WF_vars(WorkerBlock)
    /\ WF_vars(WorkerTake)
    /\ WF_vars(WorkerLog)

NoFrontEnd == FrontEndStarted

\* components that a specification does not use
ElseIdle ==
    /\ NoLives
    /\ NoReconnect
    /\ NoRotation
    /\ NoNames
    /\ NoCollector
    /\ NoReceive
    /\ NoParser
    /\ NoFrontEnd

(***************************************************************************)
(* Specifications                                                          *)
(***************************************************************************)
Init == QInit /\ LIdle /\ ElseIdle
Next == QNext
Spec == Init /\ [][Next]_vars

\* a queue nobody uses
QIdle ==
    /\ QInit
    /\ max_size_ = 0

LoggerInit == LInit /\ QIdle /\ ElseIdle

\* threads that call log(message) and setDefaultLevel
DefaultLogNext ==
    \/ \E t \in Threads : DefaultLogCall(t)
    \/ \E t \in Threads : LogSteps(t)
    \/ \E t \in Threads, level \in LogLevels : SetDefaultLevelCall(t, level)
    \/ \E t \in Threads : SetDefaultLevelLock(t)
    \/ \E t \in Threads : SetDefaultLevelStore(t)
DefaultLogSpec == LoggerInit /\ [][DefaultLogNext]_vars
LoggerSpec == LoggerInit /\ [][LNext]_vars

MultithreadingInit ==
    /\ ElseIdle
    /\ LInit
    /\ defaultLevel_ = INFO
    /\ file_open = TRUE
    /\ QIdle
MultithreadingSpec == MultithreadingInit /\ [][MTNext]_vars

\* testStressMultithreading: Logger logger(testFile, LogLevel::INFO)
StressInit ==
    /\ ElseIdle
    /\ LInit
    /\ defaultLevel_ = INFO
    /\ file_open = TRUE
    /\ QIdle
StressSpec == StressInit /\ [][StressNext]_vars

\* a Logger on a file that opened, with its queue of capacity MaxQueueSize
AsyncInit ==
    /\ ElseIdle
    /\ LInit
    /\ file_open = TRUE
    /\ QInit
    /\ max_size_ = MaxQueueSize
AsyncSpec == AsyncInit /\ [][AsyncNext]_vars

\* The constructors do not initialize last_error_ and the member has no
\* initializer: a new Logger holds an indeterminate value in it.
ErrorInit ==
    /\ ElseIdle
    /\ LConstructed
    /\ last_error_ \in LoggingErrors
    /\ QIdle
ErrorSpec == ErrorInit /\ [][LNext]_vars

SocketInit ==
    /\ ElseIdle
    /\ QIdle
    /\ LoggerIdle
    /\ SocketConstructed
SocketSpec == SocketInit /\ [][SocketNext]_vars

\* cleanupFile(testFile): the file is empty and no Logger exists yet
LifetimeInit ==
    /\ QIdle
    /\ NoSocket
    /\ NoReconnect
    /\ NoRotation
    /\ NoNames
    /\ NoCollector
    /\ NoReceive
    /\ NoParser
    /\ NoFrontEnd
    /\ NoLives
    /\ output_ = FALSE
    /\ file_open = FALSE
    /\ file_good = FALSE
    /\ file_ = <<>>
    /\ defaultLevel_ = INFO
    /\ l_mutex_ = NoThread
    /\ t_pc = [t \in Threads |-> "idle"]
    /\ t_calls = [t \in Threads |-> 0]
    /\ t_arg = [t \in Threads |-> INFO]
    /\ cur = [t \in Threads |-> NoCall]
    /\ config_ = DefaultConfig
    /\ lastset = NoSet
    /\ last_error_ = SUCCESS
    /\ async_running_ = FALSE
    /\ workers = 0
LifetimeSpec == LifetimeInit /\ [][LifetimeNext]_vars

ReconnectInit ==
    /\ QIdle
    /\ LIdle
    /\ NoLives
    /\ NoRotation
    /\ NoNames
    /\ NoCollector
    /\ NoReceive
    /\ NoParser
    /\ NoFrontEnd
    /\ EnhancedSocketConstructed
ReconnectSpec == ReconnectInit /\ [][ReconnectNext]_vars

RotationInit ==
    /\ QIdle
    /\ LIdle
    /\ NoLives
    /\ NoReconnect
    /\ NoNames
    /\ NoCollector
    /\ NoReceive
    /\ NoParser
    /\ NoFrontEnd
    /\ EnhancedFileConstructed
RotationSpec == RotationInit /\ [][RotationNext]_vars

NamesInit ==
    /\ QIdle
    /\ LIdle
    /\ NoLives
    /\ NoReconnect
    /\ NoRotation
    /\ NoCollector
    /\ NoReceive
    /\ NoParser
    /\ NoFrontEnd
    /\ NamesStart
NamesSpec == NamesInit /\ [][NamesNext]_vars

CollectorInit ==
    /\ QIdle
    /\ LIdle
    /\ NoLives
    /\ NoReconnect
    /\ NoRotation
    /\ NoNames
    /\ NoReceive
    /\ NoParser
    /\ NoFrontEnd
    /\ CollectorStarted
CollectorSpec == CollectorInit /\ [][CollectorNext]_vars
ReceiveSpec == CollectorInit /\ [][ReceiveNext]_vars

StatsInit ==
    /\ QIdle
    /\ LIdle
    /\ NoLives
    /\ NoReconnect
    /\ NoRotation
    /\ NoNames
    /\ NoReceive
    /\ NoParser
    /\ NoFrontEnd
    /\ StatsStarted
StatsSpec == StatsInit /\ [][ReceiveNext]_vars

ReceiveLinesInit ==
    /\ QIdle
    /\ LIdle
    /\ NoLives
    /\ NoReconnect
    /\ NoRotation
    /\ NoNames
    /\ NoCollector
    /\ NoParser
    /\ NoFrontEnd
    /\ Connected
ReceiveLinesSpec == ReceiveLinesInit /\ [][ReceiveLinesNext]_vars

ParserInit ==
    /\ QIdle
    /\ LIdle
    /\ NoLives
    /\ NoReconnect
    /\ NoRotation
    /\ NoNames
    /\ NoCollector
    /\ NoReceive
    /\ NoFrontEnd
    /\ LineReceived
ParserSpec == ParserInit /\ [][ParserNext]_vars

FormatInit ==
    /\ QIdle
    /\ LIdle
    /\ NoLives
    /\ NoReconnect
    /\ NoRotation
    /\ NoNames
    /\ NoCollector
    /\ NoReceive
    /\ NoFrontEnd
    /\ LineFormatted
FormatSpec == FormatInit /\ [][ParserNext]_vars

FrontEndInit ==
    /\ QIdle
    /\ LIdle
    /\ NoLives
    /\ NoReconnect
    /\ NoRotation
    /\ NoNames
    /\ NoCollector
    /\ NoReceive
    /\ NoParser
    /\ FrontEndStarted
FrontEndSpec == FrontEndInit /\ [][FrontEndNext]_vars /\ FrontEndFairness

\* A call in progress runs on: the thread that made it is scheduled again.
\* Nothing obliges a caller to make a further call, and wait() need not
\* return spuriously.
QFairness ==
    /\ \A p \in Producers : WF_vars(PushLock(p)) /\ WF_vars(PushBody(p))
    /\ WF_vars(PopLock)
    /\ WF_vars(PopPred)
    /\ WF_vars(PopBlock)
    /\ WF_vars(PopFinish)
    /\ WF_vars(ShutdownNotify)

FairSpec == Init /\ [][Next]_vars /\ QFairness

(***************************************************************************)
(* Properties of AsyncQueue                                                *)
(***************************************************************************)
LastOf(s) == s[Len(s)]
Pops(s) == SelectSeq(s, IsPop)
After(s, i) == SubSeq(s, i + 1, Len(s))
Between(s, i, j) == SubSeq(s, i + 1, j - 1)

\* C2: push returns false and leaves the queue as it was exactly when the
\* size it finds under the lock is >= max_size_; otherwise it appends the
\* item at the tail and returns true. A push that holds the lock always
\* completes at once, and a push that wants the lock needs only the lock to
\* be free: no state of the queue makes it wait.
C2_PushStep(p) ==
    (p_pc[p] = "push_body" /\ p_pc'[p] # "push_body") =>
        /\ Len(hist') = Len(hist) + 1
        /\ LastOf(hist').op = "push"
        /\ LastOf(hist').item = p_item[p]
        /\ IF Len(queue_) >= max_size_
           THEN LastOf(hist').ok = FALSE /\ queue_' = queue_
           ELSE LastOf(hist').ok = TRUE /\ queue_' = Append(queue_, p_item[p])

C2_PushNeverWaits ==
    \A p \in Producers :
        /\ p_pc[p] = "push_body" => ENABLED PushBody(p)
        /\ (p_pc[p] = "push_lock" /\ q_mutex_ = NoOwner) => ENABLED PushLock(p)

C2_PushRejectsIffFull ==
    /\ [][\A p \in Producers : C2_PushStep(p)]_vars
    /\ []C2_PushNeverWaits

\* a push was rejected on a full queue of two items while the other producer
\* was inside push too
C2_Witness ==
    /\ \E i \in 1..Len(hist) :
           hist[i].op = "push" /\ ~hist[i].ok /\ Len(hist[i].q) = 2
    /\ \E i \in 1..Len(hist) : hist[i].op = "push" /\ hist[i].ok
    /\ \E p \in Producers : p_pc[p] = "push_lock"

\* C3: the number of queued items never exceeds max_size_.
C3_SizeAtMostMax == Len(queue_) <= max_size_

\* the queue is full with two items after pushes of both producers, a pop
\* and a shutdown
C3_Witness ==
    /\ max_size_ = 2
    /\ Len(queue_) = 2
    /\ \E i, j \in 1..Len(hist) :
           IsAccepted(hist[i]) /\ IsAccepted(hist[j])
           /\ hist[i].item.by # hist[j].item.by
    /\ \E i \in 1..Len(hist) : IsPopOk(hist[i])
    /\ shutdown_

\* C4: when the first max_size_ + 1 operations on a new queue are pushes
\* and every later one is a pop, the first max_size_ pushes are accepted,
\* the last is rejected, and the pops return the accepted items in the
\* order of their pushes, max_size_ of them at most.
C4_Scenario ==
    /\ Len(hist) >= max_size_ + 1
    /\ \A i \in 1..Len(hist) :
           IF i <= max_size_ + 1 THEN hist[i].op = "push" ELSE hist[i].op = "pop"

C4_Backpressure ==
    C4_Scenario =>
        /\ \A i \in 1..(max_size_ + 1) : hist[i].ok <=> (i <= max_size_)
        /\ Len(hist) <= 2 * max_size_ + 1
        /\ \A k \in 1..(Len(hist) - (max_size_ + 1)) :
               /\ hist[max_size_ + 1 + k].ok
               /\ hist[max_size_ + 1 + k].item = hist[k].item

\* three pushes on a queue of size two, then both accepted items popped and
\* the consumer blocked in a third pop
C4_Witness ==
    /\ C4_Scenario
    /\ max_size_ = 2
    /\ Len(hist) = 5
    /\ c_pc = "pop_wait"

\* C5: pop returns only from its last statement, and never while the queue
\* is empty and shutdown_ is unset; it returns false exactly when shutdown_
\* is set and the queue is empty, and otherwise removes the head, stores it
\* in `item` and returns true.
C5_PopStep ==
    (c_pc # "idle" /\ c_pc' = "idle") =>
        /\ c_pc = "pop_check"
        /\ ~(queue_ = <<>> /\ ~shutdown_)
        /\ Len(hist') = Len(hist) + 1
        /\ LastOf(hist').op = "pop"
        /\ IF shutdown_ /\ queue_ = <<>>
           THEN LastOf(hist').ok = FALSE /\ queue_' = queue_ /\ c_item' = c_item
           ELSE /\ LastOf(hist').ok = TRUE
                /\ LastOf(hist').item = Head(queue_)
                /\ c_item' = Head(queue_)
                /\ queue_' = Tail(queue_)

C5_PopBlocksOrReturns == [][C5_PopStep]_vars

\* a pop that returned an item once shutdown_ was set, and a later pop that
\* returned false
C5_Witness ==
    \E i, j \in 1..Len(hist) :
        /\ i < j
        /\ IsPopOk(hist[i])
        /\ \E s \in 1..(i - 1) : IsShutdown(hist[s])
        /\ hist[j].op = "pop" /\ ~hist[j].ok

\* C6: for a shutdown() that finds K items queued and is followed by no
\* accepted push, the k-th pop after it returns the k-th of those items for
\* k <= K, and every pop after the K-th returns false.
C6_NoPushAfter(s) == \A i \in (s + 1)..Len(hist) : ~IsAccepted(hist[i])

C6_ShutdownDrains ==
    \A s \in 1..Len(hist) :
        (IsShutdown(hist[s]) /\ C6_NoPushAfter(s)) =>
            LET K == Len(hist[s].q)
                P == Pops(After(hist, s))
            IN  \A k \in 1..Len(P) :
                    IF k <= K
                    THEN P[k].ok /\ P[k].item = hist[s].q[k]
                    ELSE ~P[k].ok

\* shutdown() with two items queued, then two pops that return them and a
\* third that returns false
C6_Witness ==
    \E s \in 1..Len(hist) :
        /\ IsShutdown(hist[s])
        /\ C6_NoPushAfter(s)
        /\ Len(hist[s].q) = 2
        /\ Len(Pops(After(hist, s))) = 3

\* C7: shutdown() wakes the consumer: once shutdown_ is set, a consumer that
\* is inside pop returns from it (with false when the queue is empty; that
\* it returns at all is what is stated here).
C7_ShutdownWakesConsumer == (shutdown_ /\ c_pc # "idle") ~> (c_pc = "idle")

\* C8 as claimed: after a pop has returned false, every later pop returns
\* false.
C8_FalseIsTerminal ==
    \A i, j \in 1..Len(hist) :
        (i < j /\ hist[i].op = "pop" /\ ~hist[i].ok /\ hist[j].op = "pop")
            => ~hist[j].ok

\* C8 as amended: after a pop has returned false, a later pop returns false
\* exactly when every item accepted by a push since that result has been
\* popped again; an item pushed after the false result is returned by a
\* later pop.
C8_AcceptedBetween(i, j) == Len(SelectSeq(Between(hist, i, j), IsAccepted))
C8_PoppedBetween(i, j) == Len(SelectSeq(Between(hist, i, j), IsPopOk))

C8_FalseUntilNextPush ==
    \A i, j \in 1..Len(hist) :
        (i < j /\ hist[i].op = "pop" /\ ~hist[i].ok /\ hist[j].op = "pop")
            => (hist[j].ok <=> C8_AcceptedBetween(i, j) > C8_PoppedBetween(i, j))

\* a pop returned false, a push was accepted after it, the next pop returned
\* that item and the pop after that returned false again
C8_Witness ==
    \E i, k, j, l \in 1..Len(hist) :
        /\ i < k /\ k < j /\ j < l
        /\ hist[i].op = "pop" /\ ~hist[i].ok
        /\ IsAccepted(hist[k])
        /\ IsPopOk(hist[j]) /\ hist[j].item = hist[k].item
        /\ hist[l].op = "pop" /\ ~hist[l].ok

\* C9: the items returned by successful pops, followed by the items still
\* queued, are the accepted pushes in the order of their acceptance.
C9_FifoOrder == PoppedItems \o queue_ = AcceptedItems

\* items of both producers were popped, and more are queued
C9_Witness ==
    /\ Len(PoppedItems) >= 2
    /\ PoppedItems[1].by # PoppedItems[2].by
    /\ Len(queue_) >= 1

(***************************************************************************)
(* Properties of Logger::log                                               *)
(***************************************************************************)
InFile(t, n) == \E i \in 1..Len(file_) : file_[i].t = t /\ file_[i].n = n

\* the log call of thread t has returned
Returned(t) == cur[t].n > 0 /\ t_pc[t] \notin {"log_filter", "log_valid",
                                                "log_lock", "write_text",
                                                "write_endl"}

\* C1: a log call with level L1 that reads the threshold L2 hands its
\* message to the backend's writeLog if and only if L1 >= L2, provided the
\* backend is valid, and the whole line is in the file when that call
\* returns true; when L1 < L2 it returns true, isValid() and writeLog are
\* not called and the file holds nothing of the message, whether the
\* backend is valid or not.
C1_Call(t) ==
    LET c == cur[t] IN
    /\ c.invoked => (c.level >= c.seen /\ c.valid = "valid")
    /\ InFile(t, c.n) => c.invoked
    /\ Returned(t) =>
        /\ c.seen \in LogLevels
        /\ c.level < c.seen =>
              (c.ret /\ ~c.invoked /\ c.valid = "unasked" /\ ~InFile(t, c.n))
        /\ c.valid # "invalid" => (c.invoked <=> c.level >= c.seen)
        /\ (c.level >= c.seen /\ c.ret) =>
              \E i \in 1..(Len(file_) - 1) :
                  /\ file_[i] = Chunk(t, c.n, "text")
                  /\ file_[i + 1] = Chunk(t, c.n, "endl")

C1_LevelFiltering == \A t \in Threads : C1_Call(t)

\* one thread's message passed the filter and is in the file, another
\* thread's message was below the threshold and its call returned true
C1_Witness ==
    \E t, u \in Threads :
        /\ t # u
        /\ Returned(t) /\ cur[t].level >= cur[t].seen /\ cur[t].ret
        /\ InFile(t, cur[t].n)
        /\ Returned(u) /\ cur[u].level < cur[u].seen /\ cur[u].ret

\* C10: at most one thread is inside FileOutput::writeLog; the file is a
\* sequence of lines, each the text of one message followed by its own end
\* of line, only the last of them possibly unfinished; and when every thread
\* has made its MessagesPerThread calls and no write has failed, the file
\* holds exactly NumThreads * MessagesPerThread complete lines, one for each
\* message.
InWriteLog(t) == t_pc[t] \in {"write_text", "write_endl"}

C10_WholeLines ==
    \A i \in 1..Len(file_) :
        IF file_[i].part = "text"
        THEN i < Len(file_) =>
                file_[i + 1] = Chunk(file_[i].t, file_[i].n, "endl")
        ELSE i > 1 /\ file_[i - 1] = Chunk(file_[i].t, file_[i].n, "text")

C10_AllWritten ==
    \A t \in Threads : t_pc[t] = "idle" /\ t_calls[t] = MessagesPerThread

C10_SerializedWrites ==
    /\ Cardinality({t \in Threads : InWriteLog(t)}) <= 1
    /\ C10_WholeLines
    /\ (C10_AllWritten /\ file_good) =>
          /\ Len(file_) = 2 * NumThreads * MessagesPerThread
          /\ \A t \in Threads : \A n \in 1..MessagesPerThread :
                 Cardinality({i \in 1..Len(file_) :
                                 file_[i] = Chunk(t, n, "endl")}) = 1

\* all threads are done, nothing failed, and the lines of different threads
\* alternate in the file
C10_Witness ==
    /\ C10_AllWritten
    /\ file_good
    /\ Len(file_) = 2 * NumThreads * MessagesPerThread
    /\ \E i \in 1..(Len(file_) - 4) :
           file_[i].t # file_[i + 2].t /\ file_[i + 2].t # file_[i + 4].t

\* C11: in the stress test, where message j of every thread goes through
\* debug(), info() or warning() as j mod 3 is 0, 1 or 2 and the threshold is
\* INFO, every message of every thread is written: when all threads have
\* joined and no write has failed the file holds exactly
\* NumThreads * MessagesPerThread lines.
StressDone ==
    \A t \in Threads : t_pc[t] = "idle" /\ t_calls[t] = MessagesPerThread

LinesInFile == Cardinality({i \in 1..Len(file_) : file_[i].part = "endl"})

C11_StressWritesEveryMessage ==
    (StressDone /\ file_good) => LinesInFile = NumThreads * MessagesPerThread

\* C12: after enableAsync(true) a log call whose level passes the filter and
\* whose backend is valid does not write to the backend itself: no thread
\* that began its log call with async_running_ set is inside the backend's
\* writeLog while async_running_ is still set.
C12_AsyncLogDoesNotWrite ==
    \A t \in Threads : (cur[t].async /\ async_running_) => ~InWriteLog(t)

\* C13: a log call whose level passes the filter and that finds the backend
\* invalid (the file did not open, or the stream is no longer good) returns
\* false from that check: it does not take the mutex, does not call
\* writeLog and adds nothing to the file.
C13_InvalidStep(t) ==
    (t_pc[t] = "log_valid" /\ t_pc'[t] # "log_valid"
                           /\ ~(file_open /\ file_good)) =>
        /\ t_pc'[t] = "idle"
        /\ cur'[t].valid = "invalid"
        /\ ~cur'[t].ret
        /\ ~cur'[t].invoked
        /\ l_mutex_' = l_mutex_
        /\ file_' = file_
        /\ file_good' = file_good

C13_InvalidReturned(t) ==
    (Returned(t) /\ cur[t].valid = "invalid") =>
        /\ cur[t].level >= cur[t].seen
        /\ ~cur[t].ret
        /\ ~cur[t].invoked
        /\ ~InFile(t, cur[t].n)

C13_InvalidBackend ==
    /\ [](\A t \in Threads : C13_InvalidReturned(t))
    /\ [][\A t \in Threads : C13_InvalidStep(t)]_vars

\* the file did not open (an empty file name): a call above the threshold
\* has returned false and the file holds nothing
C13_Witness ==
    \E t \in Threads :
        /\ Returned(t)
        /\ cur[t].level >= cur[t].seen
        /\ cur[t].valid = "invalid"
        /\ ~cur[t].ret
        /\ ~file_open
        /\ file_ = <<>>

\* C14: in every state reached after a setConfig or setDefaultLevel call
\* has completed, whatever the constructor's level and whatever calls came
\* before, defaultLevel_ equals config_.defaultLevel.
C14_LevelsAgree ==
    lastset.kind # "none" => defaultLevel_ = config_.defaultLevel

\* C15: when setDefaultLevel(L) returns, getDefaultLevel() returns L, and
\* it goes on returning L for as long as that call is the latest setter to
\* have completed; a log call that reads the threshold meanwhile is
\* filtered against L: it returns at the filter exactly when its level is
\* below L.
C15_StoreStep(t) ==
    (t_pc[t] = "set_store" /\ t_pc'[t] = "idle") =>
        getDefaultLevel' = t_arg[t]

C15_FilterStep(t) ==
    (t_pc[t] = "log_filter" /\ t_pc'[t] # "log_filter"
                            /\ lastset.kind = "setDefaultLevel") =>
        /\ cur'[t].seen = lastset.level
        /\ t_pc'[t] = "idle" <=> cur[t].level < lastset.level

C15_SetDefaultLevel ==
    /\ [](lastset.kind = "setDefaultLevel" => getDefaultLevel = lastset.level)
    /\ [][\A t \in Threads : C15_StoreStep(t) /\ C15_FilterStep(t)]_vars

\* the threshold was lowered from WARNING to DEBUG and a debug message
\* logged afterwards is in the file
C15_Witness ==
    /\ lastset = [kind |-> "setDefaultLevel", level |-> DEBUG, prev |-> WARNING]
    /\ getDefaultLevel = DEBUG
    /\ \E t \in Threads :
           /\ Returned(t)
           /\ cur[t].level = DEBUG
           /\ cur[t].seen = DEBUG
           /\ cur[t].ret
           /\ InFile(t, cur[t].n)

\* C16: at most one worker runs per Logger in every reachable state, and
\* whenever no thread is inside startAsyncWorker or stopAsyncWorker the
\* worker runs exactly when async_running_ is set, also when two threads
\* call enableAsync at the same time.
InStartOrStop(t) ==
    t_pc[t] \in {"start_worker", "stop_signal", "stop_join", "dtor_signal",
                 "dtor_join"}

C16_AtMostOneWorker ==
    /\ workers <= 1
    /\ (\A t \in Threads : ~InStartOrStop(t)) =>
          (async_running_ <=> workers = 1)

\* C17: the destructor stops and joins the worker before the backend is
\* released: in no reachable state is the backend gone while a worker runs
\* or async_running_ is still set, and the step that releases the backend
\* is taken by the destructor after stopAsyncWorker has returned.
C17_ReleaseStep ==
    (output_ /\ ~output_') =>
        /\ workers = 0
        /\ \E t \in Threads : t_pc[t] = "dtor_release" /\ t_pc'[t] = "gone"

C18_LastErrorRecorded ==
    \A t \in Threads :
        (Returned(t) /\ ~cur[t].ret) =>
            /\ getLastError # SUCCESS
            /\ getLastError \in {FILE_OPEN_FAILED, FILE_WRITE_FAILED}

\* C19: a writeLog call whose send() returned a negative value or took
\* fewer bytes than the message has returns false and leaves the
\* connection invalid: isValid() is false after it.
SendFailed(w) == w.sent # NotSent /\ (w.sent < 0 \/ w.sent < w.length)

C19_FailedSendInvalidates ==
    \A i \in 1..Len(w_hist) :
        SendFailed(w_hist[i]) =>
            /\ ~w_hist[i].ret
            /\ i = Len(w_hist) => ~SocketIsValid(connected_, socket_fd_)

\* C20 as stated: a FileOutput whose file opened is valid in every later
\* state, whatever writeLog calls were made and whether they failed.
FileOutputIsValid == FileIsValid(file_open, file_good)

C20_StaysValid == file_open => FileOutputIsValid

\* C20 amended: a FileOutput whose file opened stays open, and isValid()
\* is true until a write fails.  Validity is lost only by a step of the
\* thread that is inside writeLog holding the mutex; a writeLog call that
\* has returned false leaves isValid() false; and once false it is false
\* in every later state.
C20_Step ==
    /\ file_open' = file_open
    /\ ~FileOutputIsValid => ~FileOutputIsValid'
    /\ (FileOutputIsValid /\ ~FileOutputIsValid') =>
          \E t \in Threads :
              /\ InWriteLog(t)
              /\ l_mutex_ = t
              /\ cur'[t].invoked
              /\ t_pc'[t] = "idle" => ~cur'[t].ret

C20_ValidUntilWriteFails ==
    /\ [](\A t \in Threads :
            (file_open /\ Returned(t) /\ cur[t].invoked /\ ~cur[t].ret) =>
                ~FileOutputIsValid)
    /\ [](\A t \in Threads :
            (Returned(t) /\ cur[t].invoked /\ cur[t].ret) => file_open)
    /\ [][C20_Step]_vars

\* the file opened, a write failed inside one thread's call, which returned
\* false, and a later call of another thread was turned away at isValid()
C20_Witness ==
    /\ file_open
    /\ ~FileOutputIsValid
    /\ \E t, u \in Threads :
           /\ Returned(t) /\ cur[t].invoked /\ ~cur[t].ret
           /\ Returned(u) /\ cur[u].valid = "invalid"

\* C21: constructing a Logger leaves the file's content as it was, and when
\* Loggers are created one after another on one file, each logging one
\* message, the complete lines of the file are the messages of the calls
\* that returned true, in the order the Loggers were created.
RECURSIVE LinesOf(_)
LinesOf(content) ==
    IF content = <<>> THEN <<>>
    ELSE IF Head(content).part = "endl"
         THEN <<[t |-> Head(content).t, n |-> Head(content).n]>>
                  \o LinesOf(Tail(content))
         ELSE LinesOf(Tail(content))

RECURSIVE LoggedBy(_)
LoggedBy(ls) ==
    IF ls = <<>> THEN <<>>
    ELSE IF Head(ls).ret
         THEN <<[t |-> Head(ls).t, n |-> Head(ls).n]>> \o LoggedBy(Tail(ls))
         ELSE LoggedBy(Tail(ls))

C21_AppendMode ==
    /\ [](~output_ => LinesOf(file_) = LoggedBy(lives))
    /\ [][(~output_ /\ output_') => file_' = file_]_vars

\* MaxLifetimes Loggers have come and gone, every call returned true and
\* the file holds MaxLifetimes lines
C21_Witness ==
    /\ ~output_
    /\ Len(lives) = MaxLifetimes
    /\ \A i \in 1..Len(lives) : lives[i].ret
    /\ Len(LinesOf(file_)) = MaxLifetimes

\* C22: against a target that always fails, a reconnect loop makes at most
\* max_reconnect_attempts_ attempts and has ended once it has made them; the
\* output is never valid, and only the restart after a failed write begins a
\* new loop.
C22_LoopStarted == loops = 0 /\ loops' > 0
C22_BoundedAttempts ==
    /\ [](always_fails =>
             /\ attempts <= MaxReconnectAttempts
             /\ (attempts = MaxReconnectAttempts => loops = 0)
             /\ ~EnhancedSocketIsValid)
    /\ [][(always_fails /\ C22_LoopStarted) =>
             \E t \in Threads : e_pc[t] = "restart_spawn" /\ e_pc'[t] = "idle"]_vars
C22_Witness ==
    /\ always_fails
    /\ attempts = MaxReconnectAttempts
    /\ loops = 0
    /\ ~reconnecting_
    /\ e_calls > 0

\* C23: at most one reconnect loop runs at a time; a request to start it
\* while it runs changes nothing, also when several writers ask at once.
C23_NoOpStep ==
    \A t \in Threads :
        (e_pc[t] = "restart_check" /\ reconnecting_ /\ e_pc'[t] = "idle") =>
            /\ loops' = loops
            /\ remaining' = remaining
            /\ attempts' = attempts
            /\ reconnecting_' = reconnecting_
C23_OneLoop ==
    /\ [](loops <= 1 /\ (reconnecting_ <=> loops = 1))
    /\ [][C23_NoOpStep]_vars
C23_Witness ==
    \E t, u \in Threads :
        /\ t # u
        /\ e_pc[t] = "restart_check"
        /\ e_pc[u] = "restart"
        /\ reconnecting_
        /\ loops = 1

\* C24: EnhancedFileOutput::writeLog rotates before it writes exactly when
\* the size tracked since the last rotation has reached
\* max_size_mb * 1024 * 1024 bytes; a rotation resets the tracked size, so
\* the next rotation comes only once the threshold is reached again.
C24_Write == o_calls' = o_calls + 1
C24_RotateWhenFull ==
    [][C24_Write =>
         /\ (rotate_calls' = rotate_calls + 1)
               <=> (current_size_ >= max_size_mb * 1024 * 1024)
         /\ rotate_calls' \in {rotate_calls, rotate_calls + 1}
         /\ (active' # active) =>
               /\ rotate_calls' = rotate_calls + 1
               /\ current_size_' \in WriteSizes
         /\ (active' = active) =>
               current_size_' - current_size_ \in WriteSizes]_vars
C24_Witness ==
    /\ active = 2
    /\ rotate_calls = 1
    /\ o_calls = 4
    /\ current_size_ >= Mib
    /\ current_size_ < max_size_mb * Mib

\* C25: the files base.k that exist at one time are never more than
\* max_files_; a rotation drops the oldest, moves each base.k to base.k+1
\* and the active file to base.1.
C25_Count == Cardinality({k \in Numbers : numbered[k] # 0})
C25_RotateStep ==
    (active' # active) =>
        /\ numbered'[1] = active
        /\ \A k \in 1..(max_files_ - 2) : numbered'[k + 1] = numbered[k]
        /\ \A k \in Numbers : k >= max_files_ /\ k > 1 => numbered'[k] = 0
C25_AtMostMaxFiles ==
    /\ [](C25_Count <= max_files_)
    /\ [][C25_RotateStep]_vars
C25_Witness ==
    /\ max_files_ = 3
    /\ active = 4
    /\ numbered[1] = 3
    /\ numbered[2] = 2

\* C26: for every LogLevel L the name of L converts back to L, distinct
\* levels have distinct names, a level's name is recognised in any mix of
\* upper and lower case, and a string that is not the name of a level
\* converts to INFO.
C26_LevelNamed ==
    IF \E L \in LogLevels : logLevelToString(L) = n_word
    THEN CHOOSE L \in LogLevels : logLevelToString(L) = n_word
    ELSE INFO
C26_RoundTrip ==
    /\ \A L1, L2 \in LogLevels :
          L1 # L2 => logLevelToString(L1) # logLevelToString(L2)
    /\ n_pc = "round" => n_result = <<n_level>>
    /\ n_pc = "parsed" => n_result = <<C26_LevelNamed>>
\* the same for the strings that name none of the six enumerators of
\* Logger.cpp
C26_DeclaredLevels ==
    /\ \A L1, L2 \in LogLevels :
          L1 # L2 => logLevelToString(L1) # logLevelToString(L2)
    /\ n_pc = "round" => n_result = <<n_level>>
    /\ (n_pc = "parsed" /\ n_word \notin {Name.TRACE, Name.ERROR, Name.FATAL})
          => n_result = <<C26_LevelNamed>>

\* C27: each check of the collector, the one after a line in the receive
\* loop and the one timeoutChecker makes every second, prints a report
\* exactly when the total is a positive multiple of N, or the counters have
\* changed since the last report and T seconds have passed since it.
\* (A check that timeoutChecker makes while the receive loop is inside
\* addMessage is left out.)
C27_Due ==
    \/ totalMessages % messagesInterval = 0 /\ totalMessages > 0
    \/ totalMessages # reported /\ (now - lastStatsOutput) >= timeoutSeconds
C27_CheckStep ==
    /\ (k_pc = "check" /\ k_pc' # "check") => (k_pc' = "print" <=> C27_Due)
    /\ (tc_pc = "sleep" /\ tc_sleep' # tc_sleep /\ k_pc # "changed") =>
          (tc_pc' = "print" <=> C27_Due)
C27_ReportWhenDue == [][C27_CheckStep]_vars
\* the receive loop's check, with no second thread
C27_ReceiveStep ==
    (k_pc = "check" /\ k_pc' # "check") => (k_pc' = "print" <=> C27_Due)
C27_ReceiveLoopAlone == [][C27_ReceiveStep]_vars

\* C28: after any sequence of lines, totalMessages is the number of lines
\* added and the sum of the counts per level, messagesLastHour is at most
\* totalMessages, and minLength <= maxLength are the least and the greatest
\* length among the messages added.
RECURSIVE C28_PerLevel(_)
C28_PerLevel(todo) ==
    IF todo = {} THEN 0
    ELSE LET level == CHOOSE l \in todo : TRUE
         IN  messagesByLevel[level] + C28_PerLevel(todo \ {level})
C28_AddStep == k_pc = "recv" /\ k_pc' = "changed"
C28_CountersAgree ==
    /\ [](/\ totalMessages = C28_PerLevel(DOMAIN messagesByLevel)
          /\ messagesLastHour <= totalMessages
          /\ totalMessages > 0 =>
                /\ minLength <= maxLength
                /\ minLength \in lengths
                /\ maxLength \in lengths
                /\ \A l \in lengths : minLength <= l /\ l <= maxLength)
    /\ [][totalMessages' = totalMessages + (IF C28_AddStep THEN 1 ELSE 0)]_vars
\* hi/INFO, bye/WARNING, ok/INFO, the first of them more than an hour ago
C28_Witness ==
    /\ totalMessages = 3
    /\ messagesByLevel = (INFO :> 2) @@ (WARNING :> 1)
    /\ minLength = 2
    /\ maxLength = 3
    /\ messagesLastHour = 2

\* C29: however the stream is cut into recv chunks, the lines handed to the
\* parser are the non-empty newline-ended lines of the bytes received so
\* far, each without one trailing carriage return, and the bytes after the
\* last newline are kept in partialMessage.
C29_Newlines(s) == {i \in 1..Len(s) : s[i] = "\n"}
C29_LineEndingAt(s, i) ==
    LET before == {j \in C29_Newlines(s) : j < i}
        start == IF before = {} THEN 1
                 ELSE 1 + CHOOSE j \in before : \A k \in before : k <= j
        line == SubSeq(s, start, i - 1)
    IN  IF line # <<>> /\ line[Len(line)] = "\r"
        THEN SubSeq(line, 1, Len(line) - 1)
        ELSE line
C29_Tail(s) ==
    LET ends == C29_Newlines(s)
    IN  IF ends = {} THEN s
        ELSE SubSeq(s, 1 + (CHOOSE j \in ends : \A k \in ends : k <= j), Len(s))
RECURSIVE C29_Lines(_, _)
C29_Lines(s, i) ==
    IF i > Len(s) THEN <<>>
    ELSE IF s[i] = "\n" /\ i > 1 /\ s[i - 1] # "\n"
         THEN <<C29_LineEndingAt(s, i)>> \o C29_Lines(s, i + 1)
         ELSE C29_Lines(s, i + 1)
C29_Reassembled ==
    /\ handed = C29_Lines(SubSeq(stream, 1, received), 1)
    /\ partialMessage = C29_Tail(SubSeq(stream, 1, received))
\* the same for streams without a zero byte
C29_TextReassembled ==
    (\A i \in 1..Len(stream) : stream[i] # NUL) => C29_Reassembled

\* C30: for a line "[ts] [LEVEL] text" parseLogMessage returns the level
\* named by LEVEL and, as the message, text without its leading blanks,
\* whatever brackets text contains; a line without two bracket pairs one
\* after the other is rejected.
RECURSIVE C30_Stripped(_)
C30_Stripped(text) ==
    IF text # <<>> /\ Head(text) \in {" ", "\t"}
    THEN C30_Stripped(Tail(text))
    ELSE text
C30_TwoPairs(s) ==
    \E i \in 1..Len(s) : s[i] = "[" /\
      \E j \in (i + 1)..Len(s) : s[j] = "]" /\
        \E k \in (j + 1)..Len(s) : s[k] = "[" /\
          \E l \in (k + 1)..Len(s) : s[l] = "]"
C30_FirstTwoPairs ==
    p_out # <<>> =>
        /\ p_fields # <<>> =>
              p_out = <<TRUE, C30_Stripped(p_fields[3]),
                        stringToLogLevel(p_fields[2])>>
        /\ ~C30_TwoPairs(rawMessage) => p_out = <<FALSE>>
C30_Witness ==
    /\ p_fields # <<>>
    /\ p_fields[2] = Name.WARNING
    /\ p_fields[3] = <<"m", "[", "x", "]">> \/ p_fields[3] = <<"[", "m", "]">>
    /\ p_out = <<TRUE, p_fields[3], WARNING>>
C30_RejectWitness ==
    /\ rawMessage = <<"[", "x", "]", "[">>
    /\ p_out = <<FALSE>>

\* C31: every message pushed before shutdown() is given to Logger::log
\* once and in push order before the worker returns, and once shutdown()
\* has been called the worker returns and main's join comes back.
C31_DrainsAndJoins ==
    /\ [](w_pc = "returned" => passed = pushed)
    /\ tq_shutdown_ ~> (m_pc = "done")
\* what holds: the worker never returns before it has logged every message
\* pushed, in order
C31_Drains == w_pc = "returned" => passed = pushed

\* C32: log(message) logs at the default level and is never filtered out:
\* with a valid backend every such call hands its message to writeLog, also
\* while another thread calls setDefaultLevel.
C32_DefaultLevelNeverFiltered ==
    \A t \in Threads :
        (t_pc[t] = "idle" /\ cur[t].n > 0 /\ cur[t].valid # "invalid")
            => cur[t].invoked

\* C33: the instance mutex serializes every access to shared state: no
\* thread is at its read of defaultLevel_ or at its evaluation of the
\* backend's isValid() while another thread is at its write of
\* defaultLevel_ or inside the backend's writeLog.
C33_Reading(t) == t_pc[t] \in {"log_filter", "log_valid"}
C33_Writing(t) ==
    t_pc[t] \in {"set_store", "cfg_store", "write_text", "write_endl"}
C33_AccessesSerialized ==
    \A t, u \in Threads : t # u => ~(C33_Reading(t) /\ C33_Writing(u))

\* C34: the collector never prints two reports without a message between
\* them: each report, from the receive loop or from timeoutChecker, is
\* printed with a total that differs from the total of the report before.
C34_ReportStep ==
    \/ k_pc = "print" /\ k_pc' = "printed"
    \/ tc_pc = "print" /\ tc_pc' = "printed"
C34_MessageBetweenReports ==
    [][C34_ReportStep => totalMessages # reported]_vars

\* C35: the receive loop and timeoutChecker are never inside LogStatistics
\* at the same time, and statsChanged is false only when every message
\* counted has been reported.
C35_CheckerInside == tc_pc = "printed"
C35_ReceiverInside == k_pc \in {"changed", "printed"}
C35_NeverTogether ==
    /\ ~(C35_CheckerInside /\ C35_ReceiverInside)
    /\ (k_pc # "changed" /\ ~statsChanged) => totalMessages = reported

\* C36: for every level L and every message m without a newline,
\* parseLogMessage applied to formatMessage(m, L) succeeds and returns
\* exactly m and L.
C36_Inverted ==
    \E L \in LogLevels :
        /\ p_fields[2] = logLevelToString(L)
        /\ p_out = <<TRUE, p_fields[3], L>>
C36_ParserInvertsFormatter == p_out # <<>> => C36_Inverted
\* the same for the messages that do not start with a space or a tab
C36_InvertsWithoutLeadingBlank ==
    (p_out # <<>> /\ (p_fields[3] = <<>> \/ p_fields[3][1] \notin {" ", "\t"}))
        => C36_Inverted

====
